---- MODULE Spec2Model ----
(***************************************************************************)
(* Capture / storage / validation pipeline of the browser extension:       *)
(* BackgroundService (storeUrlForLater, storeResponse,                     *)
(* updateValidationStatus, removeResponse, removeAllResponses,             *)
(* validateAllPendingResponses), the background tab listeners, the content *)
(* script's URL_CHANGED / STORE_HTML_URL round trip and the popup's        *)
(* tracking switch.  Every await of the source is a step boundary: state   *)
(* read before an await may be stale when the code after it runs.          *)
(***************************************************************************)
EXTENDS Integers, Sequences, FiniteSets, TLC

\* ---------------------------------------------------------------- bounds
MaxStarted == 3

\* two background calls can be in flight at once
Calls == {1, 2}
Urls == {"u1", "u2"}
Undefined == "undefined"
CapturedHtmls == {"<html>"}
TargetStatuses == {"validated", "invalid"}

\* ---------------------------------------------------------------- state
VARIABLES
  storedResponses,      \* key 'storedResponses' (extensionStorage, sync tier)
  htmlResponses,        \* key 'htmlResponses' (browser.storage.local tier)
  urlTrackingEnabled,   \* key 'urlTrackingEnabled'
  forceHtmlStorage,     \* key 'forceHtmlStorage'
  popup,                \* position of the popup's handleStartScraping
  pc,                   \* position of each in-flight background call
  req,                  \* the request each call serves
  loc,                  \* the locals of each call
  result,               \* what each call returned to its caller
  pre,                  \* sequential mode: both tiers as the last call found them
  started,              \* number of calls begun so far
  sequential,           \* TRUE: a request arrives only when nothing is in flight
  prompt,               \* key 'prompt'
  crawlingMode,         \* key 'crawlingMode'
  analysisMode,         \* key 'analysisMode'
  ui,                   \* popup: React state of the two mode cards, toggle position
  fetched,              \* the POST /api/process exchange of each call, if any
  writeFails,           \* TRUE: the storage rejects the writes of the two lists
  probed,               \* the response the last observed probe request received
  content,              \* content script: position and clock of captureAndSendHTML
  info,                 \* what the last getStorageInfo measured and returned
  fallback              \* storage.sync answering or not; 'storedResponses' of storage.local

vars == <<storedResponses, htmlResponses, urlTrackingEnabled, forceHtmlStorage,
          popup, pc, req, loc, result, pre, started, sequential,
          prompt, crawlingMode, analysisMode, ui, fetched, writeFails,
          probed, content, info, fallback>>

tiers == <<storedResponses, htmlResponses>>
flags == <<urlTrackingEnabled, forceHtmlStorage>>
modes == <<crawlingMode, analysisMode, ui>>
\* what the operations on the two lists and on the settings leave alone: the
\* scheduling, the storage's state, the answer of the probed origin, the
\* content script's capture, the usage report
world == <<sequential, writeFails, probed, content, info, fallback>>
\* everything the content script's capture and the usage report leave alone
background == <<storedResponses, htmlResponses, urlTrackingEnabled,
                forceHtmlStorage, popup, pc, req, loc, result, pre, started,
                sequential, prompt, crawlingMode, analysisMode, ui, fetched,
                writeFails, probed, fallback>>
\* what no storage operation of the background writes: the session flags, the
\* scheduling mode, the submission settings and the requests sent
fixed == <<flags, world, prompt, modes, fetched>>

\* ---------------------------------------------------------------- records
ScrapeResponse(u, t, v, h) ==
  [url |-> u, type |-> t, validationStatus |-> v, html |-> h]

Truthy(h) == h # Undefined /\ h # ""

NoRequest == [type |-> "none", url |-> "", html |-> Undefined, status |-> ""]
NoLocals ==
  [trackingEnabled |-> FALSE, urlRequiresAuth |-> FALSE,
   responses |-> <<>>, updated |-> FALSE]
NoResult ==
  [returned |-> FALSE, success |-> FALSE, requiresAuth |-> FALSE,
   forceHtmlCapture |-> FALSE, error |-> ""]
Returned(ok, auth, err) ==
  [returned |-> TRUE, success |-> ok, requiresAuth |-> auth,
   forceHtmlCapture |-> FALSE, error |-> err]

\* URL_CHANGED and STORE_HTML_URL messages; "tabs": a direct call by a tab listener
AdmitTypes == {"URL_CHANGED", "STORE_HTML_URL", "tabs"}

\* ---------------------------------------------------------------- probe
NoHeader == <<>>
Login == <<"l", "o", "g", "i", "n">>
Auth == <<"a", "u", "t", "h">>
Signin == <<"s", "i", "g", "n", "i", "n">>
Locations ==
  { NoHeader,
    <<"/", "h", "o", "m", "e">>,
    <<"/", "l", "o", "g", "i", "n">>,
    <<"/", "L", "O", "G", "I", "N">>,
    <<"/", "o", "a", "u", "t", "h">>,
    <<"/", "s", "i", "g", "n", "i", "n">> }
ProbeStatuses == {200, 204, 301, 302, 307, 401, 403, 404, 500}
\* fetch rejected: no response at all
NetworkError ==
  [networkError |-> TRUE, status |-> 0, location |-> NoHeader,
   wwwAuthenticate |-> FALSE]
ProbeOutcomes ==
  [networkError : {FALSE}, status : ProbeStatuses, location : Locations,
   wwwAuthenticate : BOOLEAN]
  \cup {NetworkError}

includes(s, sub) ==
  \E i \in 1..(Len(s) - Len(sub) + 1) : SubSeq(s, i, i + Len(sub) - 1) = sub

checkIfUrlRequiresAuthentication_failClosed(r) ==
  IF r.networkError THEN TRUE
  ELSE IF r.status = 401 THEN TRUE
  ELSE IF r.status = 403 THEN TRUE
  ELSE IF /\ r.status >= 300 /\ r.status < 400
          /\ r.location # NoHeader
          /\ (includes(r.location, Login) \/ includes(r.location, Auth)
              \/ includes(r.location, Signin)) THEN TRUE
  ELSE IF r.wwwAuthenticate THEN TRUE
  ELSE IF r.status >= 200 /\ r.status < 300 THEN FALSE
  ELSE TRUE

checkIfUrlRequiresAuthentication(r) ==
  IF r.networkError THEN FALSE
  ELSE IF r.status = 401 THEN TRUE
  ELSE IF r.status = 403 THEN TRUE
  ELSE IF /\ r.status >= 300 /\ r.status < 400
          /\ r.location # NoHeader
          /\ (includes(r.location, Login) \/ includes(r.location, Auth)
              \/ includes(r.location, Signin)) THEN TRUE
  ELSE IF r.wwwAuthenticate THEN TRUE
  ELSE IF r.status >= 200 /\ r.status < 300 THEN FALSE
  ELSE TRUE

\* ---------------------------------------------------------------- helpers
getStoredResponses_bulkFirst(urlResponses, localHtml) == localHtml \o urlResponses

getStoredResponses(urlResponses, localHtml) == urlResponses \o localHtml

urlExists_never(existingResponses, u) == FALSE

urlExists(existingResponses, u) ==
  \E i \in 1..Len(existingResponses) : existingResponses[i].url = u

isTrackingEnabled_ignored == TRUE

isTrackingEnabled == urlTrackingEnabled

needsProbe_always(h) == TRUE

\* the probe runs only when no html came with the request
needsProbe(h) == ~Truthy(h)

newScrapeResponse_urlType(u, h) == ScrapeResponse(u, "url", "pending", h)

newScrapeResponse(u, h) ==
  ScrapeResponse(u, IF Truthy(h) THEN "html" ELSE "url", "pending", h)

storeTier_alwaysSync(response) == "sync"

\* storeResponse: which list the record is appended to
storeTier(response) ==
  IF response.type = "html" /\ Truthy(response.html) THEN "local" ELSE "sync"

differs_always(a, b) == TRUE

\* JSON.stringify(a) !== JSON.stringify(b)
differs(a, b) == a # b

withStatus_all(list, u, s) ==
  [i \in 1..Len(list) |-> [list[i] EXCEPT !.validationStatus = s]]

withStatus(list, u, s) ==
  [i \in 1..Len(list) |->
     IF list[i].url = u THEN [list[i] EXCEPT !.validationStatus = s] ELSE list[i]]

withoutUrl_all(list, u) == <<>>

withoutUrl(list, u) == SelectSeq(list, LAMBDA r : r.url # u)

validatePending_all(list) ==
  [i \in 1..Len(list) |-> [list[i] EXCEPT !.validationStatus = "validated"]]

validatePending(list) ==
  [i \in 1..Len(list) |->
     IF list[i].validationStatus = "pending"
     THEN [list[i] EXCEPT !.validationStatus = "validated"] ELSE list[i]]

\* ---------------------------------------------------------------- init
NoFetch == [sent |-> FALSE]
\* getStorageApi answers storage.sync; nothing under 'storedResponses' in
\* storage.local
SyncInUse == [syncAvailable |-> TRUE, storedResponses |-> <<>>]
NoInfo ==
  [answered |-> FALSE, syncUsage |-> 0, localUsage |-> 0, bytesInUse |-> 0,
   quotaBytes |-> 0, percentageUsed |-> 0, isLocal |-> TRUE]
NoSnapshot ==
  [length |-> 0, endsWithMarker |-> FALSE, kept |-> 0,
   cleanedHTML |-> [length |-> 0, closeTags |-> {}]]
NoCapture ==
  [pc |-> "idle", elapsed |-> 0, stableCount |-> 0, lastBodyLength |-> 0,
   html |-> NoSnapshot, url |-> "", listener |-> FALSE, responses |-> 0,
   reply |-> NoResult]
NoProbe == [sent |-> FALSE, response |-> NetworkError, urlRequiresAuth |-> FALSE]
ModesOff == [pc |-> "idle", isCrawlingMode |-> FALSE, isAnalysisMode |-> FALSE]

\* everything but the two lists and the prompt, as the extension is installed
\* nothing in flight, no setting chosen, nothing observed yet
Settled ==
  /\ popup = [pc |-> "idle", forceHtmlStorage |-> FALSE]
  /\ pc = [c \in Calls |-> "idle"]
  /\ req = [c \in Calls |-> NoRequest]
  /\ loc = [c \in Calls |-> NoLocals]
  /\ result = [c \in Calls |-> NoResult]
  /\ started = 0
  /\ crawlingMode = FALSE
  /\ analysisMode = FALSE
  /\ ui = ModesOff
  /\ fetched = [c \in Calls |-> NoFetch]
  /\ writeFails = FALSE
  /\ probed = NoProbe
  /\ content = NoCapture
  /\ info = NoInfo
  /\ fallback = SyncInUse

Installed ==
  /\ urlTrackingEnabled = FALSE
  /\ forceHtmlStorage = FALSE
  /\ Settled

Fresh ==
  /\ storedResponses = <<>>
  /\ htmlResponses = <<>>
  /\ pre = <<<<>>, <<>>>>
  /\ prompt = ""
  /\ Installed

Init == Fresh /\ sequential = FALSE

SeqInit == Fresh /\ sequential = TRUE

\* ---------------------------------------------------------------- calls
Idle(c) == pc[c] \in {"idle", "done"}
Quiescent == (\A c \in Calls : Idle(c)) /\ popup.pc = "idle"

Request(t, u, h, s) == [type |-> t, url |-> u, html |-> h, status |-> s]

MayArrive == sequential => Quiescent

Begin(c, request, first) ==
  /\ started < MaxStarted
  /\ started' = started + 1
  /\ pc' = [pc EXCEPT ![c] = first]
  /\ req' = [req EXCEPT ![c] = request]
  /\ loc' = [loc EXCEPT ![c] = NoLocals]
  /\ result' = [result EXCEPT ![c] = NoResult]
  /\ pre' = IF sequential THEN tiers ELSE pre
  /\ UNCHANGED <<tiers, fixed, popup>>

Finish(c, r) ==
  /\ pc' = [pc EXCEPT ![c] = "done"]
  /\ result' = [result EXCEPT ![c] = r]
  /\ loc' = [loc EXCEPT ![c] = NoLocals]

Goto(c, next) == pc' = [pc EXCEPT ![c] = next]

\* ---------------------------------------------------------------- admission
\* content script: browser.runtime.sendMessage({type: 'URL_CHANGED', url})
HandleUrlChanged(c, u) ==
  /\ Idle(c) /\ MayArrive
  /\ Begin(c, Request("URL_CHANGED", u, Undefined, ""), "admit_tracking")

\* background: browser.tabs.onUpdated listener, status 'complete'
TabsOnUpdated(c, u) ==
  /\ Idle(c) /\ MayArrive
  /\ Begin(c, Request("tabs", u, Undefined, ""), "admit_tracking")

\* background: browser.tabs.onActivated listener
TabsOnActivated(c, u) ==
  /\ Idle(c) /\ MayArrive
  /\ Begin(c, Request("tabs", u, Undefined, ""), "admit_tracking")

\* the caller of storeUrlForLater starts a render capture on this result
wantsCapture(r) == r.requiresAuth \/ r.forceHtmlCapture

\* storeUrlForLater: const trackingEnabled = await this.isTrackingEnabled()
AdmitTracking(c) ==
  /\ pc[c] = "admit_tracking"
  /\ IF ~isTrackingEnabled
     THEN Finish(c, Returned(FALSE, FALSE, "URL tracking is disabled"))
     ELSE /\ Goto(c, IF needsProbe(req[c].html) THEN "admit_probe" ELSE "admit_exists")
          /\ loc' = [loc EXCEPT ![c].trackingEnabled = TRUE]
          /\ UNCHANGED result
  /\ UNCHANGED <<tiers, fixed, popup, req, pre, started>>

\* storeUrlForLater: !html && (await this.checkIfUrlRequiresAuthentication(url))
ProbeAnswers(c, urlRequiresAuth) ==
  IF urlRequiresAuth
  THEN LET r == Returned(FALSE, TRUE, "URL requires authentication") IN
       /\ Goto(c, IF wantsCapture(r) THEN "capture" ELSE "done")
       /\ result' = [result EXCEPT ![c] = r]
       /\ loc' = [loc EXCEPT ![c].urlRequiresAuth = TRUE]
  ELSE /\ Goto(c, "admit_exists")
       /\ UNCHANGED <<result, loc>>

AdmitProbe(c) ==
  /\ pc[c] = "admit_probe"
  /\ \E urlRequiresAuth \in {checkIfUrlRequiresAuthentication(r) : r \in ProbeOutcomes} :
       ProbeAnswers(c, urlRequiresAuth)
  /\ UNCHANGED <<tiers, fixed, popup, req, pre, started>>

\* the same step, the probed origin's response observed
AdmitProbeOf(c, r) ==
  /\ pc[c] = "admit_probe"
  /\ ProbeAnswers(c, checkIfUrlRequiresAuthentication(r))
  /\ probed' = [sent |-> TRUE, response |-> r,
                urlRequiresAuth |-> checkIfUrlRequiresAuthentication(r)]
  /\ UNCHANGED <<tiers, flags, sequential, writeFails, content, info, fallback,
                 prompt, modes, fetched, popup, req, pre, started>>

\* getStoredResponses, first await: extensionStorage.get('storedResponses', [])
AdmitExists(c) ==
  /\ pc[c] = "admit_exists"
  /\ Goto(c, "admit_exists_local")
  /\ loc' = [loc EXCEPT ![c].responses = storedResponses]
  /\ UNCHANGED <<tiers, fixed, popup, req, result, pre, started>>

\* getStoredResponses, second await: browser.storage.local.get; then urlExists
AdmitExistsLocal(c) ==
  /\ pc[c] = "admit_exists_local"
  /\ LET existingResponses == getStoredResponses(loc[c].responses, htmlResponses) IN
       IF urlExists(existingResponses, req[c].url)
       THEN Finish(c, Returned(TRUE, FALSE, ""))
       ELSE /\ Goto(c, "store_read")
            /\ loc' = [loc EXCEPT ![c].responses = <<>>]
            /\ UNCHANGED result
  /\ UNCHANGED <<tiers, fixed, popup, req, pre, started>>

\* storeResponse: read the list of the record's tier
StoreRead(c) ==
  /\ pc[c] = "store_read"
  /\ LET response == newScrapeResponse(req[c].url, req[c].html) IN
       loc' = [loc EXCEPT ![c].responses =
                 IF storeTier(response) = "local" THEN htmlResponses
                 ELSE storedResponses]
  /\ Goto(c, "store_write")
  /\ UNCHANGED <<tiers, fixed, popup, req, result, pre, started>>

QuotaExceeded == "QUOTA_BYTES quota exceeded"

caught_swallowed(message) == Returned(TRUE, FALSE, "")

\* storeUrlForLater: catch (error) { return {success: false, error: message} }
caught(message) == Returned(FALSE, FALSE, message)

StoreWrite_quotaChecked(c) ==
  /\ pc[c] = "store_write"
  /\ IF writeFails \/ info.percentageUsed >= 80
     THEN /\ Finish(c, caught(QuotaExceeded))
          /\ UNCHANGED tiers
     ELSE /\ LET response == newScrapeResponse(req[c].url, req[c].html) IN
               IF storeTier(response) = "local"
               THEN /\ htmlResponses' = Append(loc[c].responses, response)
                    /\ UNCHANGED storedResponses
               ELSE /\ storedResponses' = Append(loc[c].responses, response)
                    /\ UNCHANGED htmlResponses
          /\ Finish(c, Returned(TRUE, FALSE, ""))
  /\ UNCHANGED <<fixed, popup, req, pre, started>>

\* storeResponse: write the list read before, with the record appended; a
\* rejected set() is rethrown by storeResponse and caught by storeUrlForLater
StoreWrite(c) ==
  /\ pc[c] = "store_write"
  /\ IF writeFails
     THEN /\ Finish(c, caught(QuotaExceeded))
          /\ UNCHANGED tiers
     ELSE /\ LET response == newScrapeResponse(req[c].url, req[c].html) IN
               IF storeTier(response) = "local"
               THEN /\ htmlResponses' = Append(loc[c].responses, response)
                    /\ UNCHANGED storedResponses
               ELSE /\ storedResponses' = Append(loc[c].responses, response)
                    /\ UNCHANGED htmlResponses
          /\ Finish(c, Returned(TRUE, FALSE, ""))
  /\ UNCHANGED <<fixed, popup, req, pre, started>>

\* content script: captureAndSendHTML(url) sends STORE_HTML_URL with the snapshot
CaptureAndSendHTML(c) ==
  /\ pc[c] = "capture"
  /\ \E h \in CapturedHtmls :
       req' = [req EXCEPT ![c] = Request("STORE_HTML_URL", req[c].url, h, "")]
  /\ Goto(c, "admit_tracking")
  /\ result' = [result EXCEPT ![c] = NoResult]
  /\ loc' = [loc EXCEPT ![c] = NoLocals]
  /\ pre' = IF sequential THEN tiers ELSE pre
  /\ UNCHANGED <<tiers, fixed, popup, started>>

\* the capture never reaches the background (no content script in the tab,
\* or captureAndSendHTML throws): the caller logs the error and stops
CaptureFails(c) ==
  /\ pc[c] = "capture"
  /\ Goto(c, "done")
  /\ UNCHANGED <<tiers, fixed, popup, req, loc, result, pre, started>>

\* ---------------------------------------------------------------- validation
\* popup: browser.runtime.sendMessage({type: 'UPDATE_VALIDATION', ...})
HandleUpdateValidation(c, u, s) ==
  /\ Idle(c) /\ MayArrive
  /\ Begin(c, Request("UPDATE_VALIDATION", u, Undefined, s), "update_sync")

\* updateValidationStatus: read the sync list, map it, compare
UpdateSync(c) ==
  /\ pc[c] = "update_sync"
  /\ LET updatedUrlResponses == withStatus(storedResponses, req[c].url, req[c].status) IN
       IF differs(storedResponses, updatedUrlResponses)
       THEN /\ Goto(c, "update_sync_write")
            /\ loc' = [loc EXCEPT ![c].responses = updatedUrlResponses]
       ELSE /\ Goto(c, "update_local")
            /\ UNCHANGED loc
  /\ UNCHANGED <<tiers, fixed, popup, req, result, pre, started>>

UpdateSyncWrite_unflagged(c) ==
  /\ pc[c] = "update_sync_write"
  /\ IF writeFails
     THEN /\ Finish(c, Returned(FALSE, FALSE, ""))
          /\ UNCHANGED storedResponses
     ELSE /\ storedResponses' = loc[c].responses
          /\ loc' = [loc EXCEPT ![c].responses = <<>>]
          /\ Goto(c, "update_local")
          /\ UNCHANGED result
  /\ UNCHANGED <<htmlResponses, fixed, popup, req, pre, started>>

\* updateValidationStatus: extensionStorage.set('storedResponses', ...)
UpdateSyncWrite(c) ==
  /\ pc[c] = "update_sync_write"
  /\ IF writeFails
     THEN /\ Finish(c, Returned(FALSE, FALSE, ""))
          /\ UNCHANGED storedResponses
     ELSE /\ storedResponses' = loc[c].responses
          /\ loc' = [loc EXCEPT ![c].responses = <<>>, ![c].updated = TRUE]
          /\ Goto(c, "update_local")
          /\ UNCHANGED result
  /\ UNCHANGED <<htmlResponses, fixed, popup, req, pre, started>>

\* updateValidationStatus: read the local list, map it, compare
UpdateLocal(c) ==
  /\ pc[c] = "update_local"
  /\ LET updatedHtmlResponses == withStatus(htmlResponses, req[c].url, req[c].status) IN
       IF differs(htmlResponses, updatedHtmlResponses)
       THEN /\ Goto(c, "update_local_write")
            /\ loc' = [loc EXCEPT ![c].responses = updatedHtmlResponses]
            /\ UNCHANGED result
       ELSE Finish(c, Returned(loc[c].updated, FALSE, ""))
  /\ UNCHANGED <<tiers, fixed, popup, req, pre, started>>

\* updateValidationStatus: browser.storage.local.set({htmlResponses}); return updated
UpdateLocalWrite(c) ==
  /\ pc[c] = "update_local_write"
  /\ IF writeFails
     THEN /\ Finish(c, Returned(FALSE, FALSE, ""))
          /\ UNCHANGED htmlResponses
     ELSE /\ htmlResponses' = loc[c].responses
          /\ Finish(c, Returned(TRUE, FALSE, ""))
  /\ UNCHANGED <<storedResponses, fixed, popup, req, pre, started>>

\* popup: VALIDATE_ALL_PENDING
HandleValidateAllPending(c) ==
  /\ Idle(c) /\ MayArrive
  /\ Begin(c, Request("VALIDATE_ALL_PENDING", "", Undefined, ""), "validate_sync")

ValidateSync(c) ==
  /\ pc[c] = "validate_sync"
  /\ loc' = [loc EXCEPT ![c].responses = validatePending(storedResponses)]
  /\ Goto(c, "validate_sync_write")
  /\ UNCHANGED <<tiers, fixed, popup, req, result, pre, started>>

ValidateSyncWrite(c) ==
  /\ pc[c] = "validate_sync_write"
  /\ IF writeFails
     THEN /\ Finish(c, Returned(FALSE, FALSE, ""))
          /\ UNCHANGED storedResponses
     ELSE /\ storedResponses' = loc[c].responses
          /\ loc' = [loc EXCEPT ![c].responses = <<>>]
          /\ Goto(c, "validate_local")
          /\ UNCHANGED result
  /\ UNCHANGED <<htmlResponses, fixed, popup, req, pre, started>>

ValidateLocal(c) ==
  /\ pc[c] = "validate_local"
  /\ loc' = [loc EXCEPT ![c].responses = validatePending(htmlResponses)]
  /\ Goto(c, "validate_local_write")
  /\ UNCHANGED <<tiers, fixed, popup, req, result, pre, started>>

ValidateLocalWrite(c) ==
  /\ pc[c] = "validate_local_write"
  /\ IF writeFails
     THEN /\ Finish(c, Returned(FALSE, FALSE, ""))
          /\ UNCHANGED htmlResponses
     ELSE /\ htmlResponses' = loc[c].responses
          /\ Finish(c, Returned(TRUE, FALSE, ""))
  /\ UNCHANGED <<storedResponses, fixed, popup, req, pre, started>>

\* ---------------------------------------------------------------- removal
\* popup: REMOVE_RESPONSE
HandleRemoveResponse(c, u) ==
  /\ Idle(c) /\ MayArrive
  /\ Begin(c, Request("REMOVE_RESPONSE", u, Undefined, ""), "remove_sync")

RemoveSync(c) ==
  /\ pc[c] = "remove_sync"
  /\ LET updatedUrlResponses == withoutUrl(storedResponses, req[c].url) IN
       IF Len(storedResponses) # Len(updatedUrlResponses)
       THEN /\ Goto(c, "remove_sync_write")
            /\ loc' = [loc EXCEPT ![c].responses = updatedUrlResponses]
       ELSE /\ Goto(c, "remove_local")
            /\ UNCHANGED loc
  /\ UNCHANGED <<tiers, fixed, popup, req, result, pre, started>>

RemoveSyncWrite(c) ==
  /\ pc[c] = "remove_sync_write"
  /\ IF writeFails
     THEN /\ Finish(c, Returned(FALSE, FALSE, ""))
          /\ UNCHANGED storedResponses
     ELSE /\ storedResponses' = loc[c].responses
          /\ loc' = [loc EXCEPT ![c].responses = <<>>, ![c].updated = TRUE]
          /\ Goto(c, "remove_local")
          /\ UNCHANGED result
  /\ UNCHANGED <<htmlResponses, fixed, popup, req, pre, started>>

RemoveLocal(c) ==
  /\ pc[c] = "remove_local"
  /\ LET updatedHtmlResponses == withoutUrl(htmlResponses, req[c].url) IN
       IF Len(htmlResponses) # Len(updatedHtmlResponses)
       THEN /\ Goto(c, "remove_local_write")
            /\ loc' = [loc EXCEPT ![c].responses = updatedHtmlResponses]
            /\ UNCHANGED result
       ELSE Finish(c, Returned(loc[c].updated, FALSE, ""))
  /\ UNCHANGED <<tiers, fixed, popup, req, pre, started>>

RemoveLocalWrite(c) ==
  /\ pc[c] = "remove_local_write"
  /\ IF writeFails
     THEN /\ Finish(c, Returned(FALSE, FALSE, ""))
          /\ UNCHANGED htmlResponses
     ELSE /\ htmlResponses' = loc[c].responses
          /\ Finish(c, Returned(TRUE, FALSE, ""))
  /\ UNCHANGED <<storedResponses, fixed, popup, req, pre, started>>

\* popup: REMOVE_ALL_RESPONSES
HandleRemoveAllResponses(c) ==
  /\ Idle(c) /\ MayArrive
  /\ Begin(c, Request("REMOVE_ALL_RESPONSES", "", Undefined, ""), "removeall_sync")

RemoveAllSync_skipped(c) ==
  /\ pc[c] = "removeall_sync"
  /\ Goto(c, "removeall_local")
  /\ UNCHANGED <<tiers, fixed, popup, req, loc, result, pre, started>>

RemoveAllSync(c) ==
  /\ pc[c] = "removeall_sync"
  /\ IF writeFails
     THEN /\ Finish(c, Returned(FALSE, FALSE, ""))
          /\ UNCHANGED storedResponses
     ELSE /\ storedResponses' = <<>>
          /\ Goto(c, "removeall_local")
          /\ UNCHANGED <<loc, result>>
  /\ UNCHANGED <<htmlResponses, fixed, popup, req, pre, started>>

RemoveAllLocal(c) ==
  /\ pc[c] = "removeall_local"
  /\ IF writeFails
     THEN /\ Finish(c, Returned(FALSE, FALSE, ""))
          /\ UNCHANGED htmlResponses
     ELSE /\ htmlResponses' = <<>>
          /\ Finish(c, Returned(TRUE, FALSE, ""))
  /\ UNCHANGED <<storedResponses, fixed, popup, req, pre, started>>

\* ---------------------------------------------------------------- popup
\* handleStartScraping: extensionStorage.set('urlTrackingEnabled', true)
StartScraping(f) ==
  /\ popup.pc = "idle" /\ MayArrive
  /\ urlTrackingEnabled' = TRUE
  /\ popup' = [pc |-> "start_force", forceHtmlStorage |-> f]
  /\ UNCHANGED <<tiers, forceHtmlStorage, world, pc, req, loc, result, pre, started>>
  /\ UNCHANGED <<prompt, modes, fetched>>

\* handleStartScraping: extensionStorage.set('forceHtmlStorage', forceHtmlStorage)
StartScrapingForce ==
  /\ popup.pc = "start_force"
  /\ forceHtmlStorage' = popup.forceHtmlStorage
  /\ popup' = [pc |-> "idle", forceHtmlStorage |-> FALSE]
  /\ UNCHANGED <<tiers, urlTrackingEnabled, world, pc, req, loc, result, pre, started>>
  /\ UNCHANGED <<prompt, modes, fetched>>

\* handleEndScraping: extensionStorage.set('urlTrackingEnabled', false)
EndScraping ==
  /\ popup.pc = "idle" /\ MayArrive
  /\ urlTrackingEnabled' = FALSE
  /\ UNCHANGED <<tiers, forceHtmlStorage, world, popup, pc, req, loc, result, pre, started>>
  /\ UNCHANGED <<prompt, modes, fetched>>

\* ---------------------------------------------------------------- submission
Statuses == {"pending", "validated", "invalid"}
CompactUrls == <<"u1", "u2", "u3">>
BulkUrls == <<"u4", "u5">>
Prompts == {"", "extract"}
\* submissions are served one at a time, in one slot
SubmitCalls == {1}
SampleSize == 3

\* the rendered page an html record of url u carries
snapshotOf(u) == "<html>" \o u \o "</html>"

\* the lists one-at-a-time admissions and validations of distinct urls leave
Populations(names, t) ==
  UNION {{[i \in 1..k |->
             ScrapeResponse(names[i], t, st[i],
                            IF t = "html" THEN snapshotOf(names[i]) ELSE Undefined)]
            : st \in [1..k -> Statuses]} : k \in 0..Len(names)}

NoResponse == [networkError |-> "", status |-> 0, body |-> "", textError |-> ""]
FetchStatuses == {200, 201, 404, 500}
FetchOutcomes ==
  {[networkError |-> "", status |-> st, body |-> "name,price", textError |-> ""]
     : st \in FetchStatuses}
  \cup {[networkError |-> "Failed to fetch", status |-> 0, body |-> "",
         textError |-> ""],
        [networkError |-> "", status |-> 200, body |-> "",
         textError |-> "network error"]}

SubmitLocals ==
  [responses |-> <<>>, validatedResponses |-> <<>>, currentPrompt |-> "",
   isCrawlingMode |-> FALSE, isAnalysisMode |-> FALSE, response |-> NoResponse]

SubmitResult(ok, err, n, csv) ==
  [returned |-> TRUE, success |-> ok, error |-> err, sent |-> n, csvData |-> csv]
SubmitFailed(err) == SubmitResult(FALSE, err, Undefined, Undefined)

filterValidated_notInvalid(responses) ==
  SelectSeq(responses, LAMBDA r : r.validationStatus # "invalid")

\* responses.filter(r => r.validationStatus === 'validated')
filterValidated(responses) ==
  SelectSeq(responses, LAMBDA r : r.validationStatus = "validated")

slice_whole(list, start, end) == list

\* Array.prototype.slice(start, end), 0 <= start <= end
slice(list, start, end) ==
  SubSeq(list, start + 1, IF end < Len(list) THEN end ELSE Len(list))

filterType(responses, t) == SelectSeq(responses, LAMBDA r : r.type = t)

nothingToSend_never(validatedResponses) == FALSE

\* validatedResponses.length === 0
nothingToSend(validatedResponses) == Len(validatedResponses) = 0

responseOk_only200(status) == status = 200

\* Response.ok
responseOk(status) == status >= 200 /\ status <= 299

serverError(status) == "Server error: " \o ToString(status)

\* JSON body of POST ${backendUrl}/api/process
processBody(validatedResponses, currentPrompt, isCrawlingMode, isAnalysisMode) ==
  LET validatedUrls == filterType(validatedResponses, "url")
      validatedHtmls == filterType(validatedResponses, "html")
  IN [urls |-> [i \in 1..Len(validatedUrls) |-> [url |-> validatedUrls[i].url]],
      htmls |-> [i \in 1..Len(validatedHtmls) |-> [html |-> validatedHtmls[i].html]],
      prompt |-> currentPrompt,
      crawl |-> isCrawlingMode,
      analysis_only |-> isAnalysisMode]

BeginSubmit(c, request) ==
  /\ pc' = [pc EXCEPT ![c] = "submit_read"]
  /\ req' = [req EXCEPT ![c] = request]
  /\ loc' = [loc EXCEPT ![c] = SubmitLocals]
  /\ result' = [result EXCEPT ![c] = NoResult]
  /\ fetched' = [fetched EXCEPT ![c] = NoFetch]
  /\ pre' = IF sequential THEN tiers ELSE pre
  /\ UNCHANGED <<tiers, flags, world, prompt, modes, popup, started>>

\* popup: browser.runtime.sendMessage({type: 'SEND_VALIDATED'})
HandleSendValidated(c) ==
  /\ Idle(c) /\ MayArrive
  /\ BeginSubmit(c, Request("SEND_VALIDATED", "", Undefined, ""))

\* popup: browser.runtime.sendMessage({type: 'VERIFY_SAMPLE'})
HandleVerifySample(c) ==
  /\ Idle(c) /\ MayArrive
  /\ BeginSubmit(c, Request("VERIFY_SAMPLE", "", Undefined, ""))

IsSubmit(c) == req[c].type \in {"SEND_VALIDATED", "VERIFY_SAMPLE"}

\* getStoredResponses, first await: extensionStorage.get('storedResponses', [])
SubmitRead(c) ==
  /\ pc[c] = "submit_read"
  /\ loc' = [loc EXCEPT ![c].responses = storedResponses]
  /\ Goto(c, "submit_read_local")
  /\ UNCHANGED <<tiers, fixed, popup, req, result, pre, started>>

\* getStoredResponses, second await; filter (and slice); the empty check
SubmitReadLocal(c) ==
  /\ pc[c] = "submit_read_local"
  /\ LET responses == getStoredResponses(loc[c].responses, htmlResponses)
         validatedResponses ==
           IF req[c].type = "VERIFY_SAMPLE"
           THEN slice(filterValidated(responses), 0, SampleSize)
           ELSE filterValidated(responses)
     IN IF nothingToSend(validatedResponses)
        THEN Finish(c, SubmitFailed("No validated responses to send"))
        ELSE /\ Goto(c, "submit_prompt")
             /\ loc' = [loc EXCEPT ![c].responses = <<>>,
                                   ![c].validatedResponses = validatedResponses]
             /\ UNCHANGED result
  /\ UNCHANGED <<tiers, fixed, popup, req, pre, started>>

\* const currentPrompt = await this.getPropmpt()
SubmitPrompt(c) ==
  /\ pc[c] = "submit_prompt"
  /\ loc' = [loc EXCEPT ![c].currentPrompt = prompt]
  /\ Goto(c, "submit_crawling")
  /\ UNCHANGED <<tiers, fixed, popup, req, result, pre, started>>

\* const isCrawlingMode = await extensionStorage.get('crawlingMode', false)
SubmitCrawling(c) ==
  /\ pc[c] = "submit_crawling"
  /\ loc' = [loc EXCEPT ![c].isCrawlingMode = crawlingMode]
  /\ Goto(c, "submit_analysis")
  /\ UNCHANGED <<tiers, fixed, popup, req, result, pre, started>>

\* const isAnalysisMode = await extensionStorage.get('analysisMode', false)
SubmitAnalysis(c) ==
  /\ pc[c] = "submit_analysis"
  /\ loc' = [loc EXCEPT ![c].isAnalysisMode = analysisMode]
  /\ Goto(c, "submit_fetch")
  /\ UNCHANGED <<tiers, fixed, popup, req, result, pre, started>>

\* const response = await fetch(...); the non-ok and the network-error return
SubmitFetch(c) ==
  /\ pc[c] = "submit_fetch"
  /\ \E response \in FetchOutcomes :
       /\ fetched' = [fetched EXCEPT ![c] =
            [sent |-> TRUE,
             body |-> processBody(loc[c].validatedResponses, loc[c].currentPrompt,
                                  loc[c].isCrawlingMode, loc[c].isAnalysisMode),
             response |-> response]]
       /\ IF response.networkError # ""
          THEN Finish(c, SubmitFailed(response.networkError))
          ELSE IF responseOk(response.status)
          THEN /\ Goto(c, "submit_text")
               /\ loc' = [loc EXCEPT ![c].response = response]
               /\ UNCHANGED result
          ELSE Finish(c, SubmitFailed(serverError(response.status)))
  /\ UNCHANGED <<tiers, flags, world, prompt, modes, popup, req, pre, started>>

SubmitText_clearing(c) ==
  /\ pc[c] = "submit_text"
  /\ storedResponses' = <<>>
  /\ htmlResponses' = <<>>
  /\ Finish(c, SubmitResult(TRUE, Undefined, Len(loc[c].validatedResponses),
                            loc[c].response.body))
  /\ UNCHANGED <<fixed, popup, req, pre, started>>

\* const csvData = await response.text(); return {success: true, sent, csvData}
SubmitText(c) ==
  /\ pc[c] = "submit_text"
  /\ IF loc[c].response.textError # ""
     THEN Finish(c, SubmitFailed(loc[c].response.textError))
     ELSE Finish(c, SubmitResult(TRUE, Undefined, Len(loc[c].validatedResponses),
                                 loc[c].response.body))
  /\ UNCHANGED <<tiers, fixed, popup, req, pre, started>>

\* ---------------------------------------------------------------- settings
\* handlePromptChange: extensionStorage.set('prompt', newPrompt)
HandlePromptChange(newPrompt) ==
  /\ prompt # newPrompt
  /\ prompt' = newPrompt
  /\ UNCHANGED <<tiers, flags, world, modes, fetched, popup, pc, req, loc,
                 result, pre, started>>

\* no toggle handler has a storage write or a send ahead of it: either none
\* ran, or the last one returned, or it waits on a request nobody answers
Ready == ui.pc \in {"idle", "crawling_unanswered", "analysis_unanswered"}

\* handleToggleCrawling: setIsCrawlingMode(enabled); set('crawlingMode', enabled)
HandleToggleCrawling(enabled) ==
  /\ Ready
  /\ enabled = ~ui.isCrawlingMode
  /\ crawlingMode' = enabled
  /\ ui' = [ui EXCEPT !.isCrawlingMode = enabled,
                      !.pc = IF enabled /\ ui.isAnalysisMode
                             THEN "crawling_clear" ELSE "crawling_notify"]
  /\ UNCHANGED <<tiers, flags, world, prompt, analysisMode, fetched, popup,
                 pc, req, loc, result, pre, started>>

ToggleCrawlingClear_skipped ==
  /\ ui.pc = "crawling_clear"
  /\ ui' = [ui EXCEPT !.isAnalysisMode = FALSE, !.pc = "crawling_other_sent"]
  /\ UNCHANGED <<tiers, flags, world, prompt, crawlingMode, analysisMode,
                 fetched, popup, pc, req, loc, result, pre, started>>

\* handleToggleCrawling: setIsAnalysisMode(false); set('analysisMode', false);
\* then sendMessage ANALYSIS_TOGGLED
ToggleCrawlingClear ==
  /\ ui.pc = "crawling_clear"
  /\ analysisMode' = FALSE
  /\ ui' = [ui EXCEPT !.isAnalysisMode = FALSE, !.pc = "crawling_other_sent"]
  /\ UNCHANGED <<tiers, flags, world, prompt, crawlingMode, fetched, popup,
                 pc, req, loc, result, pre, started>>

\* handleToggleCrawling: sendMessage CRAWLING_TOGGLED
ToggleCrawlingNotify ==
  /\ ui.pc = "crawling_notify"
  /\ ui' = [ui EXCEPT !.pc = "crawling_sent"]
  /\ UNCHANGED <<tiers, flags, world, prompt, crawlingMode, analysisMode,
                 fetched, popup, pc, req, loc, result, pre, started>>

\* handleToggleAnalysis: setIsAnalysisMode(enabled); set('analysisMode', enabled)
HandleToggleAnalysis(enabled) ==
  /\ Ready
  /\ enabled = ~ui.isAnalysisMode
  /\ analysisMode' = enabled
  /\ ui' = [ui EXCEPT !.isAnalysisMode = enabled,
                      !.pc = IF enabled /\ ui.isCrawlingMode
                             THEN "analysis_clear" ELSE "analysis_notify"]
  /\ UNCHANGED <<tiers, flags, world, prompt, crawlingMode, fetched, popup,
                 pc, req, loc, result, pre, started>>

\* handleToggleAnalysis: setIsCrawlingMode(false); set('crawlingMode', false);
\* then sendMessage CRAWLING_TOGGLED
ToggleAnalysisClear ==
  /\ ui.pc = "analysis_clear"
  /\ crawlingMode' = FALSE
  /\ ui' = [ui EXCEPT !.isCrawlingMode = FALSE, !.pc = "analysis_other_sent"]
  /\ UNCHANGED <<tiers, flags, world, prompt, analysisMode, fetched, popup,
                 pc, req, loc, result, pre, started>>

\* handleToggleAnalysis: sendMessage ANALYSIS_TOGGLED
ToggleAnalysisNotify ==
  /\ ui.pc = "analysis_notify"
  /\ ui' = [ui EXCEPT !.pc = "analysis_sent"]
  /\ UNCHANGED <<tiers, flags, world, prompt, crawlingMode, analysisMode,
                 fetched, popup, pc, req, loc, result, pre, started>>

\* the SET_MODE request the popup is waiting on
Awaits(t) ==
  ui.pc \in (IF t = "CRAWLING_TOGGLED"
             THEN {"crawling_sent", "analysis_other_sent"}
             ELSE {"analysis_sent", "crawling_other_sent"})

\* background: ANALYSIS_TOGGLED logs and calls sendResponse({success: true});
\* the popup's await resolves and its handler goes on
HandleAnalysisToggled ==
  /\ Awaits("ANALYSIS_TOGGLED")
  /\ ui' = [ui EXCEPT !.pc = IF ui.pc = "crawling_other_sent"
                             THEN "crawling_notify" ELSE "idle"]
  /\ UNCHANGED <<tiers, flags, world, prompt, crawlingMode, analysisMode,
                 fetched, popup, pc, req, loc, result, pre, started>>

\* background: CRAWLING_TOGGLED logs and returns true; sendResponse is never
\* called, so the popup's await never resolves and its handler goes no further
HandleCrawlingToggled ==
  /\ Awaits("CRAWLING_TOGGLED")
  /\ ui' = [ui EXCEPT !.pc = IF ui.pc = "crawling_sent"
                             THEN "crawling_unanswered" ELSE "analysis_unanswered"]
  /\ UNCHANGED <<tiers, flags, world, prompt, crawlingMode, analysisMode,
                 fetched, popup, pc, req, loc, result, pre, started>>

\* ---------------------------------------------------------------- capture
\* getRenderedHTML: the sanitized snapshot, by its length and the indices of
\* its '>' characters
maxSize == 50000
nearEnd == 200
MarkerLength == 32

SnapshotLengths == {maxSize - 1, maxSize, maxSize + 1, maxSize + 2}
CloseTagIndices ==
  {0, maxSize - nearEnd - 1, maxSize - nearEnd, maxSize - nearEnd + 1,
   maxSize - 1, maxSize, maxSize + 1}
Snapshots ==
  {h \in [length : SnapshotLengths,
          closeTags : {S \in SUBSET CloseTagIndices : Cardinality(S) <= 2}] :
     \A i \in h.closeTags : i < h.length}

\* String.prototype.lastIndexOf('>', fromIndex): the search starts at fromIndex
lastIndexOf_before(closeTags, fromIndex) ==
  LET found == {i \in closeTags : i < fromIndex} IN
    IF found = {} THEN -1
    ELSE CHOOSE i \in found : \A j \in found : j <= i

lastIndexOf(closeTags, fromIndex) ==
  LET found == {i \in closeTags : i <= fromIndex} IN
    IF found = {} THEN -1
    ELSE CHOOSE i \in found : \A j \in found : j <= i

\* String.prototype.substring(0, end) of a string of that length
substringLength(length, end) == IF end < length THEN end ELSE length

getRenderedHTML(cleanedHTML) ==
  IF cleanedHTML.length > maxSize
  THEN LET lastCloseTag == lastIndexOf(cleanedHTML.closeTags, maxSize)
           truncatePoint == IF lastCloseTag > maxSize - nearEnd
                            THEN lastCloseTag + 1 ELSE maxSize
       IN [length |-> substringLength(cleanedHTML.length, truncatePoint) + MarkerLength,
           endsWithMarker |-> TRUE, cleanedHTML |-> cleanedHTML,
           kept |-> substringLength(cleanedHTML.length, truncatePoint)]
  ELSE [length |-> cleanedHTML.length, endsWithMarker |-> FALSE,
        cleanedHTML |-> cleanedHTML, kept |-> cleanedHTML.length]

\* the waits of captureAndSendHTML, in milliseconds
frameworksTimeout == 5000
frameworksPoll == 200
frameworksSettle == 500
keyElementsTimeout == 3000
keyElementsPoll == 100
maxWaitTime == 5000
pollInterval == 100
requiredStableCount == 3
lazyWait == 500

\* Date.now() - startTime after a timer of that delay fired: on time or late
elapsedAfter_stopped(elapsed, delay) == {elapsed}

elapsedAfter(elapsed, delay) == {elapsed + delay, elapsed + 2 * delay}

At(position) == content.pc = position
Capture(position, elapsed, stableCount) ==
  [NoCapture EXCEPT !.pc = position, !.elapsed = elapsed,
                    !.stableCount = stableCount, !.url = content.url,
                    !.listener = content.listener,
                    !.responses = content.responses, !.reply = content.reply]

\* document.body.innerHTML.length, as the page has it at a sample
BodyLengths == {1000, 2000}

\* waitForContentToLoad begins: startTime, lastBodyLength, stableCount = 0
Sampling(bodyLength) ==
  [Capture("stable", 0, 0) EXCEPT !.lastBodyLength = bodyLength]

stableAfter_kept(stableCount, currentBodyLength, lastBodyLength) ==
  IF currentBodyLength = lastBodyLength THEN stableCount + 1 ELSE stableCount

\* stableCount++ on an unchanged body length, stableCount = 0 on a changed one
stableAfter(stableCount, currentBodyLength, lastBodyLength) ==
  IF currentBodyLength = lastBodyLength THEN stableCount + 1 ELSE 0

\* window.location.href of the page the content script runs in
CaptureUrls == {"u1"}

\* content script: captureAndSendHTML(url) is called
CaptureStarts ==
  /\ At("idle") \/ (At("sent") /\ ~content.listener)
  /\ \E u \in CaptureUrls :
       content' = [NoCapture EXCEPT !.pc = "frameworks", !.url = u]
  /\ UNCHANGED <<background, info>>

\* content script: the onMessage listener receives CAPTURE_HTML and calls
\* captureAndSendHTML(message.url)
OnCaptureHtml(u) ==
  /\ At("idle") /\ started < MaxStarted
  /\ content' = [NoCapture EXCEPT !.pc = "frameworks", !.url = u,
                                  !.listener = TRUE]
  /\ UNCHANGED <<background, info>>

\* waitForSPAFrameworks, loop head: checkFrameworkReady() on the page as it is
WaitForSPAFrameworks ==
  /\ At("frameworks")
  /\ IF content.elapsed < frameworksTimeout
     THEN \E framework \in BOOLEAN :
            content' = [content EXCEPT
                          !.pc = IF framework THEN "frameworks_settle"
                                 ELSE "frameworks_sleep"]
     ELSE content' = Capture("keys", 0, 0)
  /\ UNCHANGED <<background, info>>

\* waitForSPAFrameworks: setTimeout(resolve, 200) fires
FrameworksPollFires ==
  /\ At("frameworks_sleep")
  /\ \E e \in elapsedAfter(content.elapsed, frameworksPoll) :
       content' = Capture("frameworks", e, 0)
  /\ UNCHANGED <<background, info>>

\* waitForSPAFrameworks: setTimeout(resolve, 500) fires, return framework
FrameworksSettleFires ==
  /\ At("frameworks_settle")
  /\ content' = Capture("keys", 0, 0)
  /\ UNCHANGED <<background, info>>

\* waitForKeyElements, loop head: querySelector over the selectors
WaitForKeyElements ==
  /\ At("keys")
  /\ IF content.elapsed < keyElementsTimeout
     THEN \E found \in BOOLEAN, bodyLength \in BodyLengths :
            content' = IF found THEN Sampling(bodyLength)
                       ELSE [content EXCEPT !.pc = "keys_sleep"]
     ELSE \E bodyLength \in BodyLengths : content' = Sampling(bodyLength)
  /\ UNCHANGED <<background, info>>

\* waitForKeyElements: setTimeout(resolve, 100) fires
KeyElementsPollFires ==
  /\ At("keys_sleep")
  /\ \E e \in elapsedAfter(content.elapsed, keyElementsPoll) :
       content' = Capture("keys", e, 0)
  /\ UNCHANGED <<background, info>>

\* waitForContentToLoad, loop head
WaitForContentToLoad ==
  /\ At("stable")
  /\ content' = [content EXCEPT
                   !.pc = IF content.elapsed < maxWaitTime THEN "stable_sleep"
                          ELSE "stable_lazy"]
  /\ UNCHANGED <<background, info>>

\* waitForContentToLoad: setTimeout(resolve, pollInterval) fires; the body
\* length is compared with the one of the last check
ContentPollFires ==
  /\ At("stable_sleep")
  /\ \E e \in elapsedAfter(content.elapsed, pollInterval),
        currentBodyLength \in BodyLengths :
       LET count == stableAfter(content.stableCount, currentBodyLength,
                                content.lastBodyLength)
           stable == /\ currentBodyLength = content.lastBodyLength
                     /\ count >= requiredStableCount
       IN content' = [content EXCEPT
                        !.pc = IF stable THEN "stable_lazy" ELSE "stable",
                        !.elapsed = e, !.stableCount = count,
                        !.lastBodyLength = currentBodyLength]
  /\ UNCHANGED <<background, info>>

\* waitForContentToLoad: setTimeout(resolve, 500) fires; getRenderedHTML();
\* browser.runtime.sendMessage({type: 'STORE_HTML_URL', url, html})
LazyWaitFires ==
  /\ At("stable_lazy")
  /\ \E cleanedHTML \in Snapshots :
       content' = [Capture("sent", 0, 0) EXCEPT
                     !.html = getRenderedHTML(cleanedHTML)]
  /\ UNCHANGED <<background, info>>

\* background: handleMessage receives the STORE_HTML_URL the capture sent and
\* calls storeUrlForLater(message.url, message.html)
HandleStoreHtmlUrl(c) ==
  /\ At("sent") /\ Idle(c)
  /\ started < MaxStarted
  /\ started' = started + 1
  /\ pc' = [pc EXCEPT ![c] = "admit_tracking"]
  /\ \E h \in CapturedHtmls :
       req' = [req EXCEPT ![c] = Request("STORE_HTML_URL", content.url, h, "")]
  /\ loc' = [loc EXCEPT ![c] = NoLocals]
  /\ result' = [result EXCEPT ![c] = NoResult]
  /\ pre' = IF sequential THEN tiers ELSE pre
  /\ content' = [content EXCEPT !.pc = "awaiting", !.html = NoSnapshot]
  /\ UNCHANGED <<tiers, flags, sequential, writeFails, probed, info, fallback,
                 prompt, modes, fetched, popup>>

\* the listener's sendResponse, called when captureAndSendHTML was started by
\* a CAPTURE_HTML message
responded_never(reply) == content.responses

responded(reply) ==
  IF content.listener THEN content.responses + 1 ELSE content.responses

\* content script: sendMessage resolves with the background's sendResponse(result);
\* captureAndSendHTML returns it, the listener's then() passes it on
CaptureReturns(c) ==
  /\ At("awaiting")
  /\ pc[c] = "done" /\ result[c].returned /\ req[c].type = "STORE_HTML_URL"
  /\ content' = [Capture("idle", 0, 0) EXCEPT
                   !.reply = result[c], !.responses = responded(result[c])]
  /\ UNCHANGED <<background, info>>

\* content script: getRenderedHTML throws or sendMessage rejects; the
\* listener's catch() answers {success: false, error: error.message}
CaptureThrows ==
  /\ At("stable_lazy") \/ At("sent")
  /\ LET reply == Returned(FALSE, FALSE, "capture failed") IN
       content' = [Capture("idle", 0, 0) EXCEPT
                     !.reply = reply, !.responses = responded(reply)]
  /\ UNCHANGED <<background, info>>

\* ---------------------------------------------------------------- usage
syncQuota == 102400
localQuota == 5242880

Percent(quota, p) == (quota * p) \div 100
\* browser.storage.sync.getBytesInUse(), browser.storage.local.getBytesInUse()
SyncUsages ==
  {0, 1, Percent(syncQuota, 50), Percent(syncQuota, 79), Percent(syncQuota, 80),
   Percent(syncQuota, 85), Percent(syncQuota, 99), syncQuota, syncQuota + 1,
   2 * syncQuota}
LocalUsages ==
  {0, 1, 2, Percent(localQuota, 50), Percent(localQuota, 79),
   Percent(localQuota, 80), Percent(localQuota, 85), Percent(localQuota, 99),
   localQuota, localQuota + 1, 2 * localQuota}

\* Math.min
min(a, b) == IF a < b THEN a ELSE b

\* (totalBytesUsed / primaryQuota) * 100, the fraction of a percent dropped
percentage(bytes, quota) == (bytes * 100) \div quota

primaryQuota(syncUsage, localUsage) ==
  IF localUsage > 0 THEN localQuota ELSE syncQuota

capped(percentageUsed) == min(percentageUsed, 100)

getStorageInfo(syncUsage, localUsage) ==
  LET totalBytesUsed == syncUsage + localUsage
      quota == primaryQuota(syncUsage, localUsage)
  IN [answered |-> TRUE, syncUsage |-> syncUsage, localUsage |-> localUsage,
      bytesInUse |-> totalBytesUsed, quotaBytes |-> quota,
      percentageUsed |-> capped(percentage(totalBytesUsed, quota)),
      isLocal |-> localUsage > syncUsage]

\* popup: sendMessage({type: 'GET_STORAGE_USAGE'}); background: getStorageInfo()
HandleGetStorageUsage(syncUsage, localUsage) ==
  /\ info' = getStorageInfo(syncUsage, localUsage)
  /\ UNCHANGED <<background, content>>

\* getStorageInfo: browser.storage.*.get() rejects, the catch answers zeros
GetStorageInfoFails ==
  /\ info' = [NoInfo EXCEPT !.answered = TRUE]
  /\ UNCHANGED <<background, content>>

\* ---------------------------------------------------------------- storage area
\* ExtensionStorage.getStorageApi: storage.sync when sync.get({}) resolves,
\* storage.local otherwise, decided anew at every get and set
getStorageApi == IF fallback.syncAvailable THEN "sync" ELSE "local"

\* extensionStorage.get('storedResponses', [])
extensionGet ==
  IF getStorageApi = "sync" THEN storedResponses ELSE fallback.storedResponses

untouched ==
  <<flags, sequential, writeFails, probed, content, info, prompt, modes, fetched,
    popup, req, pre, started>>

\* browser.storage.sync stops answering (signed out, sync disabled, Firefox
\* temporary add-on)
SyncUnavailable ==
  /\ fallback.syncAvailable
  /\ fallback' = [fallback EXCEPT !.syncAvailable = FALSE]
  /\ UNCHANGED <<tiers, untouched, pc, loc, result>>

SyncAvailable ==
  /\ ~fallback.syncAvailable
  /\ fallback' = [fallback EXCEPT !.syncAvailable = TRUE]
  /\ UNCHANGED <<tiers, untouched, pc, loc, result>>

\* getStoredResponses, first await, through getStorageApi
AreaAdmitExists(c) ==
  /\ pc[c] = "admit_exists"
  /\ Goto(c, "admit_exists_local")
  /\ loc' = [loc EXCEPT ![c].responses = extensionGet]
  /\ UNCHANGED <<tiers, fallback, untouched, result>>

\* storeResponse: read the list of the record's tier, through getStorageApi
AreaStoreRead(c) ==
  /\ pc[c] = "store_read"
  /\ LET response == newScrapeResponse(req[c].url, req[c].html) IN
       loc' = [loc EXCEPT ![c].responses =
                 IF storeTier(response) = "local" THEN htmlResponses
                 ELSE extensionGet]
  /\ Goto(c, "store_write")
  /\ UNCHANGED <<tiers, fallback, untouched, result>>

\* storeResponse: write the list read before, with the record appended, to
\* the area getStorageApi answers now
AreaStoreWrite(c) ==
  /\ pc[c] = "store_write"
  /\ LET response == newScrapeResponse(req[c].url, req[c].html)
         updatedResponses == Append(loc[c].responses, response)
     IN IF storeTier(response) = "local"
        THEN /\ htmlResponses' = updatedResponses
             /\ UNCHANGED <<storedResponses, fallback>>
        ELSE IF getStorageApi = "sync"
        THEN /\ storedResponses' = updatedResponses
             /\ UNCHANGED <<htmlResponses, fallback>>
        ELSE /\ fallback' = [fallback EXCEPT !.storedResponses = updatedResponses]
             /\ UNCHANGED tiers
  /\ Finish(c, Returned(TRUE, FALSE, ""))
  /\ UNCHANGED untouched

\* ---------------------------------------------------------------- specifications
StepCall(c) ==
  \/ AdmitTracking(c)
  \/ AdmitProbe(c)
  \/ AdmitExists(c)
  \/ AdmitExistsLocal(c)
  \/ StoreRead(c)
  \/ StoreWrite(c)
  \/ CaptureAndSendHTML(c)
  \/ CaptureFails(c)
  \/ UpdateSync(c)
  \/ UpdateSyncWrite(c)
  \/ UpdateLocal(c)
  \/ UpdateLocalWrite(c)
  \/ ValidateSync(c)
  \/ ValidateSyncWrite(c)
  \/ ValidateLocal(c)
  \/ ValidateLocalWrite(c)
  \/ RemoveSync(c)
  \/ RemoveSyncWrite(c)
  \/ RemoveLocal(c)
  \/ RemoveLocalWrite(c)
  \/ RemoveAllSync(c)
  \/ RemoveAllLocal(c)

Arrive(c) ==
  \/ \E u \in Urls : HandleUrlChanged(c, u)
  \/ \E u \in Urls : TabsOnUpdated(c, u)
  \/ \E u \in Urls : TabsOnActivated(c, u)
  \/ \E u \in Urls, s \in TargetStatuses : HandleUpdateValidation(c, u, s)
  \/ HandleValidateAllPending(c)
  \/ \E u \in Urls : HandleRemoveResponse(c, u)
  \/ HandleRemoveAllResponses(c)

\* background calls in flight are interleaved at their awaits
Next ==
  \/ \E c \in Calls : Arrive(c)
  \/ \E c \in Calls : StepCall(c)
  \/ \E f \in BOOLEAN : StartScraping(f)
  \/ StartScrapingForce
  \/ EndScraping

Spec == Init /\ [][Next]_vars

\* one operation at a time: a request arrives only when nothing is in flight
SeqSpec == SeqInit /\ [][Next]_vars

\* a stored population and a prompt, a submission at a time, the popup's mode
\* cards toggled while it runs
SubmitInit ==
  /\ storedResponses \in Populations(CompactUrls, "url")
  /\ htmlResponses \in Populations(BulkUrls, "html")
  /\ pre = tiers
  /\ prompt \in Prompts
  /\ Installed
  /\ sequential = TRUE

SubmitStep(c) ==
  \/ SubmitRead(c)
  \/ SubmitReadLocal(c)
  \/ SubmitPrompt(c)
  \/ SubmitCrawling(c)
  \/ SubmitAnalysis(c)
  \/ SubmitFetch(c)
  \/ SubmitText(c)

SubmitNext ==
  \/ \E c \in SubmitCalls : HandleSendValidated(c)
  \/ \E c \in SubmitCalls : HandleVerifySample(c)
  \/ \E c \in SubmitCalls : SubmitStep(c)
  \/ \E enabled \in BOOLEAN : HandleToggleCrawling(enabled)
  \/ ToggleCrawlingClear
  \/ ToggleCrawlingNotify
  \/ \E enabled \in BOOLEAN : HandleToggleAnalysis(enabled)
  \/ ToggleAnalysisClear
  \/ ToggleAnalysisNotify
  \/ HandleAnalysisToggled
  \/ HandleCrawlingToggled

SubmitSpec == SubmitInit /\ [][SubmitNext]_vars

\* the storage starts rejecting writes (quota reached, sync unavailable)
StorageBreaks ==
  /\ ~writeFails
  /\ writeFails' = TRUE
  /\ UNCHANGED <<tiers, flags, sequential, probed, content, info, fallback,
                 prompt, modes, fetched, popup, pc, req, loc, result, pre, started>>

StorageRecovers ==
  /\ writeFails
  /\ writeFails' = FALSE
  /\ UNCHANGED <<tiers, flags, sequential, probed, content, info, fallback,
                 prompt, modes, fetched, popup, pc, req, loc, result, pre, started>>

FaultNext ==
  \/ Next
  \/ StorageBreaks
  \/ StorageRecovers

\* one operation at a time, the storage failing and recovering at any moment
FaultSpec == SeqInit /\ [][FaultNext]_vars

\* the popup's settings handlers and the background's SET_MODE handlers
ModeNext ==
  \/ \E f \in BOOLEAN : StartScraping(f)
  \/ StartScrapingForce
  \/ EndScraping
  \/ \E newPrompt \in Prompts : HandlePromptChange(newPrompt)
  \/ \E enabled \in BOOLEAN : HandleToggleCrawling(enabled)
  \/ ToggleCrawlingClear
  \/ ToggleCrawlingNotify
  \/ \E enabled \in BOOLEAN : HandleToggleAnalysis(enabled)
  \/ ToggleAnalysisClear
  \/ ToggleAnalysisNotify
  \/ HandleAnalysisToggled
  \/ HandleCrawlingToggled

ModeSpec == Init /\ [][ModeNext]_vars

\* a storage write that was issued completes, a message that was sent is
\* delivered and its listener runs, a handler whose await resolved goes on;
\* nothing makes the user click
ModeFairSpec ==
  /\ ModeSpec
  /\ WF_vars(StartScrapingForce)
  /\ WF_vars(ToggleCrawlingClear)
  /\ WF_vars(ToggleCrawlingNotify)
  /\ WF_vars(ToggleAnalysisClear)
  /\ WF_vars(ToggleAnalysisNotify)
  /\ WF_vars(HandleAnalysisToggled)
  /\ WF_vars(HandleCrawlingToggled)

\* admissions one at a time in one slot, the response of every probe observed
ProbeCalls == {1}

ProbeNext ==
  \/ \E c \in ProbeCalls, u \in Urls : HandleUrlChanged(c, u)
  \/ \E c \in ProbeCalls, u \in Urls : TabsOnUpdated(c, u)
  \/ \E c \in ProbeCalls, u \in Urls : TabsOnActivated(c, u)
  \/ \E c \in ProbeCalls : AdmitTracking(c)
  \/ \E c \in ProbeCalls, r \in ProbeOutcomes : AdmitProbeOf(c, r)
  \/ \E c \in ProbeCalls : AdmitExists(c)
  \/ \E c \in ProbeCalls : AdmitExistsLocal(c)
  \/ \E c \in ProbeCalls : StoreRead(c)
  \/ \E c \in ProbeCalls : StoreWrite(c)
  \/ \E c \in ProbeCalls : CaptureAndSendHTML(c)
  \/ \E c \in ProbeCalls : CaptureFails(c)
  \/ \E f \in BOOLEAN : StartScraping(f)
  \/ StartScrapingForce
  \/ EndScraping

ProbeSpec == SeqInit /\ [][ProbeNext]_vars

\* the content script's capture, the page changing as it likes
CaptureNext ==
  \/ CaptureStarts
  \/ WaitForSPAFrameworks
  \/ FrameworksPollFires
  \/ FrameworksSettleFires
  \/ WaitForKeyElements
  \/ KeyElementsPollFires
  \/ WaitForContentToLoad
  \/ ContentPollFires
  \/ LazyWaitFires

CaptureSpec == SeqInit /\ [][CaptureNext]_vars

\* the event loop runs every continuation that is ready and fires every timer
CaptureFairSpec ==
  /\ CaptureSpec
  /\ WF_vars(WaitForSPAFrameworks)
  /\ WF_vars(FrameworksPollFires)
  /\ WF_vars(FrameworksSettleFires)
  /\ WF_vars(WaitForKeyElements)
  /\ WF_vars(KeyElementsPollFires)
  /\ WF_vars(WaitForContentToLoad)
  /\ WF_vars(ContentPollFires)
  /\ WF_vars(LazyWaitFires)

\* the usage report, for the byte counts the two tiers may hold
UsageNext ==
  \/ \E syncUsage \in SyncUsages, localUsage \in LocalUsages :
       HandleGetStorageUsage(syncUsage, localUsage)
  \/ GetStorageInfoFails

UsageSpec == SeqInit /\ [][UsageNext]_vars

\* admissions one at a time in one slot, the usage reported in between: the
\* compact tier empty, half full, at 85% and full, the bulk tier empty or at 85%
QuotaSyncUsages ==
  {0, Percent(syncQuota, 50), Percent(syncQuota, 85), syncQuota}
QuotaLocalUsages == {0, Percent(localQuota, 85)}

QuotaNext ==
  \/ \E c \in ProbeCalls, u \in Urls : HandleUrlChanged(c, u)
  \/ \E c \in ProbeCalls, u \in Urls : TabsOnUpdated(c, u)
  \/ \E c \in ProbeCalls, u \in Urls : TabsOnActivated(c, u)
  \/ \E c \in ProbeCalls : AdmitTracking(c)
  \/ \E c \in ProbeCalls : AdmitProbe(c)
  \/ \E c \in ProbeCalls : AdmitExists(c)
  \/ \E c \in ProbeCalls : AdmitExistsLocal(c)
  \/ \E c \in ProbeCalls : StoreRead(c)
  \/ \E c \in ProbeCalls : StoreWrite(c)
  \/ \E c \in ProbeCalls : CaptureAndSendHTML(c)
  \/ \E c \in ProbeCalls : CaptureFails(c)
  \/ \E f \in BOOLEAN : StartScraping(f)
  \/ StartScrapingForce
  \/ EndScraping
  \/ \E syncUsage \in QuotaSyncUsages, localUsage \in QuotaLocalUsages :
       HandleGetStorageUsage(syncUsage, localUsage)
  \/ GetStorageInfoFails

QuotaSpec == SeqInit /\ [][QuotaNext]_vars

\* a capture requested by CAPTURE_HTML and the admission of the snapshot it
\* sends, one at a time, tracking enabled or not
RoundTripInit ==
  /\ storedResponses = <<>>
  /\ htmlResponses = <<>>
  /\ pre = <<<<>>, <<>>>>
  /\ prompt = ""
  /\ urlTrackingEnabled \in BOOLEAN
  /\ forceHtmlStorage = FALSE
  /\ Settled
  /\ sequential = TRUE

RoundTripNext ==
  \/ \E u \in CaptureUrls : OnCaptureHtml(u)
  \/ WaitForSPAFrameworks
  \/ FrameworksPollFires
  \/ FrameworksSettleFires
  \/ WaitForKeyElements
  \/ KeyElementsPollFires
  \/ WaitForContentToLoad
  \/ ContentPollFires
  \/ LazyWaitFires
  \/ CaptureThrows
  \/ \E c \in ProbeCalls : HandleStoreHtmlUrl(c)
  \/ \E c \in ProbeCalls : AdmitTracking(c)
  \/ \E c \in ProbeCalls : AdmitExists(c)
  \/ \E c \in ProbeCalls : AdmitExistsLocal(c)
  \/ \E c \in ProbeCalls : StoreRead(c)
  \/ \E c \in ProbeCalls : StoreWrite(c)
  \/ \E c \in ProbeCalls : CaptureReturns(c)

RoundTripSpec == RoundTripInit /\ [][RoundTripNext]_vars

\* the event loops of the page and of the background run every continuation
\* that is ready, fire every timer and deliver every message
RoundTripFairSpec ==
  /\ RoundTripSpec
  /\ WF_vars(WaitForSPAFrameworks)
  /\ WF_vars(FrameworksPollFires)
  /\ WF_vars(FrameworksSettleFires)
  /\ WF_vars(WaitForKeyElements)
  /\ WF_vars(KeyElementsPollFires)
  /\ WF_vars(WaitForContentToLoad)
  /\ WF_vars(ContentPollFires)
  /\ WF_vars(LazyWaitFires)
  /\ WF_vars(\E c \in ProbeCalls : HandleStoreHtmlUrl(c))
  /\ WF_vars(\E c \in ProbeCalls : AdmitTracking(c))
  /\ WF_vars(\E c \in ProbeCalls : AdmitExists(c))
  /\ WF_vars(\E c \in ProbeCalls : AdmitExistsLocal(c))
  /\ WF_vars(\E c \in ProbeCalls : StoreRead(c))
  /\ WF_vars(\E c \in ProbeCalls : StoreWrite(c))
  /\ WF_vars(\E c \in ProbeCalls : CaptureReturns(c))

\* admissions one at a time in one slot, storage.sync coming and going
AreaNext ==
  \/ \E c \in ProbeCalls, u \in Urls : HandleUrlChanged(c, u)
  \/ \E c \in ProbeCalls : AdmitTracking(c)
  \/ \E c \in ProbeCalls : AdmitProbe(c)
  \/ \E c \in ProbeCalls : AreaAdmitExists(c)
  \/ \E c \in ProbeCalls : AdmitExistsLocal(c)
  \/ \E c \in ProbeCalls : AreaStoreRead(c)
  \/ \E c \in ProbeCalls : AreaStoreWrite(c)
  \/ \E c \in ProbeCalls : CaptureAndSendHTML(c)
  \/ \E c \in ProbeCalls : CaptureFails(c)
  \/ \E f \in BOOLEAN : StartScraping(f)
  \/ StartScrapingForce
  \/ EndScraping
  \/ SyncUnavailable
  \/ SyncAvailable

AreaSpec == SeqInit /\ [][AreaNext]_vars

\* ---------------------------------------------------------------- properties
all == getStoredResponses(storedResponses, htmlResponses)
preAll == getStoredResponses(pre[1], pre[2])
Count(list, u) == Cardinality({i \in 1..Len(list) : list[i].url = u})
Returns(c) == ~result[c].returned /\ result'[c].returned
IsAdmit(c) == req[c].type \in AdmitTypes
SameButStatus(a, b) == a.url = b.url /\ a.type = b.type /\ a.html = b.html

\* C1: the compact list and the bulk list together hold at most one record
\* per url, in every reachable state, under any interleaving of admit calls.
C1_OneRecordPerUrl == \A u \in Urls : Count(all, u) <= 1

\* C2: admit(url, html?) that finds trackingEnabled false returns a failure
\* result at once and leaves both tiers exactly as they were.
C2_TrackingDisabled ==
  [][\A c \in Calls :
       (pc[c] = "admit_tracking" /\ pc'[c] # "admit_tracking" /\ ~urlTrackingEnabled)
       => /\ pc'[c] = "done"
          /\ result'[c].returned /\ ~result'[c].success
          /\ ~result'[c].requiresAuth /\ ~result'[c].forceHtmlCapture
          /\ tiers' = tiers]_vars

C2_Witness ==
  \E c \in Calls :
    /\ pc[c] = "done" /\ req[c].type = "STORE_HTML_URL"
    /\ result[c].error = "URL tracking is disabled"
    /\ Len(storedResponses) > 0

\* C3: with tracking enabled and the probe reporting no authentication
\* requirement, admit(url) without html of an unseen url returns success and
\* leaves exactly one record for url, pending, one more record than before;
\* admit(url) of a url already stored returns success and leaves the record
\* count unchanged.
C3_AdmitOnce ==
  [][\A c \in Calls :
       (/\ Returns(c) /\ IsAdmit(c) /\ ~Truthy(req[c].html)
        /\ loc[c].trackingEnabled /\ ~loc'[c].urlRequiresAuth)
       => /\ result'[c].success
          /\ IF Count(preAll, req[c].url) = 0
             THEN /\ Count(all', req[c].url) = 1
                  /\ Len(all') = Len(preAll) + 1
                  /\ \A i \in 1..Len(all') :
                       all'[i].url = req[c].url => all'[i].validationStatus = "pending"
             ELSE /\ Len(all') = Len(preAll)
                  /\ Count(all', req[c].url) = 1]_vars

C3_Witness ==
  \E c \in Calls :
    /\ pc[c] = "done" /\ IsAdmit(c) /\ ~Truthy(req[c].html)
    /\ result[c].success
    /\ Count(preAll, req[c].url) = 1
    /\ tiers = pre
    /\ Count(all, req[c].url) = 1
    /\ \E i \in 1..Len(all) :
         all[i].url = req[c].url /\ all[i].validationStatus = "pending"

\* C4: with tracking enabled and the probe reporting that url requires
\* authentication, admit(url) without html returns {success: false,
\* requiresAuth: true} and creates no record; the following admit(url, html)
\* with non-empty html of the still unseen url returns success and creates
\* exactly one record for url, a pending html-snapshot carrying that html.
C4_AuthThenSnapshot ==
  [][\A c \in Calls :
       /\ (/\ Returns(c) /\ IsAdmit(c) /\ ~Truthy(req[c].html)
           /\ loc[c].trackingEnabled /\ loc'[c].urlRequiresAuth)
          => /\ ~result'[c].success /\ result'[c].requiresAuth
             /\ tiers' = tiers /\ tiers' = pre
       /\ (/\ Returns(c) /\ req[c].type = "STORE_HTML_URL" /\ Truthy(req[c].html)
           /\ loc[c].trackingEnabled /\ Count(preAll, req[c].url) = 0)
          => /\ result'[c].success
             /\ Count(all', req[c].url) = 1
             /\ Len(all') = Len(preAll) + 1
             /\ \A i \in 1..Len(all') :
                  all'[i].url = req[c].url
                  => all'[i] = ScrapeResponse(req[c].url, "html", "pending", req[c].html)]_vars

C4_Witness ==
  \E c \in Calls :
    /\ pc[c] = "done" /\ req[c].type = "STORE_HTML_URL" /\ Truthy(req[c].html)
    /\ result[c].success
    /\ Count(preAll, req[c].url) = 0
    /\ storedResponses = pre[1]
    /\ htmlResponses = Append(pre[2], ScrapeResponse(req[c].url, "html", "pending", req[c].html))

\* C5: with tracking enabled, admit(url, html?) of a url that already has a
\* record in either tier returns success and changes nothing, whatever the
\* authentication probe reports for url.
C5_ExistingAlwaysSucceeds ==
  [][\A c \in Calls :
       (/\ Returns(c) /\ IsAdmit(c)
        /\ loc[c].trackingEnabled /\ Count(preAll, req[c].url) > 0)
       => /\ result'[c].success
          /\ tiers' = pre]_vars

\* C6: when forceHtmlStorage is set and tracking is enabled, admit(url)
\* without html of an unseen url creates no url-only record and its result
\* asks the caller for an HTML snapshot (requiresAuth or forceHtmlCapture).
C6_ForcedHtmlNeverUrlOnly ==
  [][\A c \in Calls :
       (/\ Returns(c) /\ IsAdmit(c) /\ ~Truthy(req[c].html)
        /\ loc[c].trackingEnabled /\ forceHtmlStorage
        /\ Count(preAll, req[c].url) = 0)
       => /\ result'[c].requiresAuth \/ result'[c].forceHtmlCapture
          /\ \A i \in 1..Len(all') :
               all'[i].url = req[c].url => all'[i].type # "url"]_vars

\* C7: every record of the compact list (storedResponses) is url-only and
\* every record of the bulk list (htmlResponses) is an html-snapshot with a
\* non-empty payload, in every reachable state.
C7_TierByKind ==
  /\ \A i \in 1..Len(storedResponses) : storedResponses[i].type = "url"
  /\ \A i \in 1..Len(htmlResponses) :
       htmlResponses[i].type = "html" /\ Truthy(htmlResponses[i].html)

C7_Witness ==
  /\ Len(storedResponses) > 0
  /\ Len(htmlResponses) > 0
  /\ \E i \in 1..Len(htmlResponses) : htmlResponses[i].validationStatus # "pending"

\* C8: updateValidationStatus(url, s) on a stored record whose status differs
\* from s returns true and sets that record's validationStatus to s; its url,
\* kind, payload, tier and position, and every record with another url, are
\* unchanged.
C8_UpdateFrame ==
  [][\A c \in Calls :
       (/\ Returns(c) /\ req[c].type = "UPDATE_VALIDATION"
        /\ \E i \in 1..Len(preAll) :
             preAll[i].url = req[c].url /\ preAll[i].validationStatus # req[c].status)
       => /\ result'[c].success
          /\ Len(storedResponses') = Len(pre[1])
          /\ Len(htmlResponses') = Len(pre[2])
          /\ \A i \in 1..Len(preAll) :
               /\ SameButStatus(all'[i], preAll[i])
               /\ all'[i].validationStatus =
                    IF preAll[i].url = req[c].url THEN req[c].status
                    ELSE preAll[i].validationStatus]_vars

C8_Witness ==
  \E c \in Calls :
    /\ pc[c] = "done" /\ req[c].type = "UPDATE_VALIDATION" /\ result[c].success
    /\ tiers # pre
    /\ \E i, j \in 1..Len(all) :
         /\ all[i].url = req[c].url /\ all[i].validationStatus = req[c].status
         /\ preAll[i].validationStatus # req[c].status
         /\ all[j].url # req[c].url /\ all[j] = preAll[j]

\* C9: updateValidationStatus(url, s) for a url with no record in either tier
\* returns false without writing to storage, and both tiers are unchanged.
C9_UpdateUnknown ==
  [][\A c \in Calls :
       (/\ Returns(c) /\ req[c].type = "UPDATE_VALIDATION"
        /\ Count(preAll, req[c].url) = 0)
       => /\ ~result'[c].success
          /\ pc[c] = "update_local" /\ ~loc[c].updated
          /\ tiers' = pre]_vars

C9_Witness ==
  \E c \in Calls :
    /\ pc[c] = "done" /\ req[c].type = "UPDATE_VALIDATION" /\ ~result[c].success
    /\ Count(preAll, req[c].url) = 0
    /\ Len(all) > 0
    /\ tiers = pre

\* C10: every change of a stored record's validationStatus is
\* pending -> validated or pending -> invalid.
StatusStep(old, new) ==
  \A i \in 1..Len(old) :
    (Len(new) = Len(old) /\ new[i].url = old[i].url
     /\ new[i].validationStatus # old[i].validationStatus)
    => old[i].validationStatus = "pending"

C10_OnlyFromPending ==
  [][/\ StatusStep(storedResponses, storedResponses')
     /\ StatusStep(htmlResponses, htmlResponses')]_vars

\* C11: once updateValidationStatus or validateAllPending has set a record to
\* validated or invalid, that record is never observed as pending again for
\* as long as it stays stored, under any interleaving with other admit,
\* updateValidationStatus, validateAllPending and remove calls.
StaysDecided(old, new) ==
  \A i \in 1..Len(old) :
    (/\ old[i].validationStatus # "pending"
     /\ i <= Len(new) /\ SameButStatus(new[i], old[i]))
    => new[i].validationStatus # "pending"

C11_NeverPendingAgain ==
  [][/\ StaysDecided(storedResponses, storedResponses')
     /\ StaysDecided(htmlResponses, htmlResponses')]_vars

\* C12: after validateAllPending() returns true with no concurrent operation,
\* every record that was pending is validated, no record is pending, every
\* record that was validated or invalid is unchanged; no record is added,
\* removed or moved between tiers.
AllValidated(old, new) ==
  /\ Len(new) = Len(old)
  /\ \A i \in 1..Len(old) :
       /\ SameButStatus(new[i], old[i])
       /\ new[i].validationStatus # "pending"
       /\ new[i].validationStatus =
            IF old[i].validationStatus = "pending" THEN "validated"
            ELSE old[i].validationStatus

C12_ValidateAllFrame ==
  [][\A c \in Calls :
       (Returns(c) /\ req[c].type = "VALIDATE_ALL_PENDING" /\ result'[c].success)
       => /\ AllValidated(pre[1], storedResponses')
          /\ AllValidated(pre[2], htmlResponses')]_vars

C12_Witness ==
  \E c \in Calls :
    /\ pc[c] = "done" /\ req[c].type = "VALIDATE_ALL_PENDING" /\ result[c].success
    /\ \E i \in 1..Len(pre[1]) : pre[1][i].validationStatus = "pending"
    /\ \E i \in 1..Len(pre[2]) : pre[2][i].validationStatus = "pending"
    /\ AllValidated(pre[1], storedResponses)
    /\ AllValidated(pre[2], htmlResponses)

\* C13: for every prior population of the two tiers, after removeAll()
\* returns true the compact list and the bulk list are both empty and
\* getAll() returns no record.
C13_RemoveAllEmpties ==
  [][\A c \in Calls :
       (Returns(c) /\ req[c].type = "REMOVE_ALL_RESPONSES" /\ result'[c].success)
       => /\ storedResponses' = <<>>
          /\ htmlResponses' = <<>>
          /\ Len(all') = 0]_vars

C13_Witness ==
  \E c \in Calls :
    /\ pc[c] = "done" /\ req[c].type = "REMOVE_ALL_RESPONSES" /\ result[c].success
    /\ Len(pre[1]) > 0 /\ Len(pre[2]) > 0
    /\ Len(all) = 0

\* C14: remove(url) deletes the record(s) with that url from whichever tier
\* holds them, returns true exactly when at least one record was deleted, and
\* leaves every record with a different url, and their relative order,
\* unchanged.
OtherUrls(list, u) == SelectSeq(list, LAMBDA r : r.url # u)

C15_SubmitFrame ==
  [][/\ (\E c \in Calls : IsSubmit(c) /\ ~Idle(c)) => tiers' = tiers
     /\ \A c \in Calls : (Returns(c) /\ IsSubmit(c)) => tiers' = pre]_vars

C15_Witness ==
  \E c \in Calls :
    /\ pc[c] = "done" /\ req[c].type = "SEND_VALIDATED" /\ result[c].success
    /\ fetched[c].sent /\ Len(fetched[c].body.urls) > 0
    /\ Len(fetched[c].body.htmls) > 0
    /\ tiers = pre
    /\ \E i \in 1..Len(all) : all[i].validationStatus = "validated"

\* C16: submit(sample) sends exactly min(N, 3) records where N is the number
\* of validated records, and the records sent are the first min(N, 3)
\* validated records in the order getAll() returns them (compact-tier records
\* in insertion order followed by bulk-tier records in insertion order).
ValidatedAt(list) == {i \in 1..Len(list) : list[i].validationStatus = "validated"}
FirstOf(S, k) == {i \in S : Cardinality({j \in S : j < i}) < k}
AtIndices(list, S, t) ==
  LET indexed == [i \in 1..Len(list) |-> [i |-> i, r |-> list[i]]]
      kept == SelectSeq(indexed, LAMBDA x : x.i \in S /\ x.r.type = t)
  IN [i \in 1..Len(kept) |-> kept[i].r]
Carries(body, list, S) ==
  LET us == AtIndices(list, S, "url")
      hs == AtIndices(list, S, "html")
  IN /\ body.urls = [i \in 1..Len(us) |-> [url |-> us[i].url]]
     /\ body.htmls = [i \in 1..Len(hs) |-> [html |-> hs[i].html]]
     /\ Len(body.urls) + Len(body.htmls) = Cardinality(S)

C16_SampleFirstThree ==
  [][\A c \in Calls :
       (req[c].type = "VERIFY_SAMPLE" /\ ~fetched[c].sent /\ fetched'[c].sent)
       => LET N == Cardinality(ValidatedAt(preAll))
              k == IF N < 3 THEN N ELSE 3
          IN /\ k > 0
             /\ Carries(fetched'[c].body, preAll, FirstOf(ValidatedAt(preAll), k))
             /\ Cardinality(FirstOf(ValidatedAt(preAll), k)) = k]_vars

C16_Witness ==
  \E c \in Calls :
    /\ pc[c] = "done" /\ req[c].type = "VERIFY_SAMPLE" /\ result[c].success
    /\ Cardinality(ValidatedAt(all)) > 3
    /\ result[c].sent = 3
    /\ all[1].validationStatus # "validated"
    /\ Len(fetched[c].body.urls) = 2 /\ Len(fetched[c].body.htmls) = 1
    /\ fetched[c].body.htmls[1].html = htmlResponses[1].html

\* C17: in the request sent by submit(full), the urls sublist holds exactly
\* the validated url-only records and the htmls sublist exactly the validated
\* html-snapshot records: the two sizes add up to the number of validated
\* records, and no pending or invalid record appears in either.
C17_FullPartition ==
  [][\A c \in Calls :
       (req[c].type = "SEND_VALIDATED" /\ ~fetched[c].sent /\ fetched'[c].sent)
       => /\ Carries(fetched'[c].body, preAll, ValidatedAt(preAll))
          /\ \A i \in 1..Len(preAll) :
               preAll[i].validationStatus # "validated"
               => /\ \A j \in 1..Len(fetched'[c].body.urls) :
                       fetched'[c].body.urls[j].url # preAll[i].url
                  /\ \A j \in 1..Len(fetched'[c].body.htmls) :
                       fetched'[c].body.htmls[j].html # preAll[i].html]_vars

C17_Witness ==
  \E c \in Calls :
    /\ pc[c] = "done" /\ req[c].type = "SEND_VALIDATED" /\ fetched[c].sent
    /\ Len(fetched[c].body.urls) = 2 /\ Len(fetched[c].body.htmls) = 1
    /\ Len(storedResponses) = 3 /\ Len(htmlResponses) = 2
    /\ \E i \in 1..Len(all) : all[i].validationStatus = "pending"
    /\ \E i \in 1..Len(all) : all[i].validationStatus = "invalid"

\* C18: when the validated set after mode-limiting is empty, submit returns a
\* failure result ('No validated responses to send') and sends no HTTP
\* request to the extraction backend.
C18_NothingToSubmit ==
  [][\A c \in Calls :
       (IsSubmit(c) /\ ~Idle(c) /\ Cardinality(ValidatedAt(preAll)) = 0)
       => /\ ~fetched'[c].sent
          /\ Returns(c) => /\ ~result'[c].success
                           /\ result'[c].error = "No validated responses to send"
          /\ pc'[c] \in {"submit_read", "submit_read_local", "done"}]_vars

C18_Witness ==
  \E c \in Calls :
    /\ pc[c] = "done" /\ IsSubmit(c) /\ ~fetched[c].sent
    /\ result[c].returned /\ ~result[c].success
    /\ result[c].error = "No validated responses to send"
    /\ Len(all) > 0 /\ Cardinality(ValidatedAt(all)) = 0

\* C19: submit returns {success: true, csvData} with csvData equal to the
\* response body when the backend answers 2xx, {success: false,
\* error: 'Server error: <status>'} on a non-2xx answer, and {success: false,
\* error: <message>} when the request fails at network level (no answer, or
\* the body of the answer cannot be read); every case ends in a result.
Answered(o) == o.networkError = "" /\ o.textError = ""

C19_SubmitOutcome ==
  [][\A c \in Calls :
       /\ (Returns(c) /\ IsSubmit(c) /\ fetched'[c].sent)
          => LET o == fetched'[c].response IN
             IF Answered(o) /\ o.status \in 200..299
             THEN /\ result'[c].success
                  /\ result'[c].csvData = o.body
             ELSE /\ ~result'[c].success
                  /\ result'[c].error =
                       IF o.networkError # "" THEN o.networkError
                       ELSE IF o.textError # "" THEN o.textError
                       ELSE "Server error: " \o ToString(o.status)
       /\ (IsSubmit(c) /\ pc[c] \in {"submit_fetch", "submit_text"}
           /\ pc'[c] # pc[c] /\ pc'[c] # "submit_text")
          => pc'[c] = "done" /\ result'[c].returned]_vars

C19_Witness ==
  \E c \in Calls :
    /\ pc[c] = "done" /\ IsSubmit(c) /\ fetched[c].sent
    /\ fetched[c].response.status = 201 /\ Answered(fetched[c].response)
    /\ result[c].success /\ result[c].csvData = fetched[c].response.body

\* C20: in every reachable persisted state, including the states between the
\* individual storage writes of a mode toggle, crawlingMode and analysisMode
\* are not both true.
C20_ModesExclusive == ~(crawlingMode /\ analysisMode)

\* C21: after setCrawlingMode(true) has completed while analysisMode was on,
\* the persisted state has crawlingMode true and analysisMode false;
\* symmetrically after setAnalysisMode(true) while crawlingMode was on; and
\* disabling a mode never turns the other one on, so both can be off together.
CrawlingWritten ==
  ui.pc \in {"crawling_other_sent", "crawling_notify", "crawling_sent",
             "crawling_unanswered"}
AnalysisWritten ==
  ui.pc \in {"analysis_other_sent", "analysis_notify", "analysis_sent",
             "analysis_unanswered"}

C21_EnableForcesOtherOff ==
  [][/\ (ui.pc = "crawling_clear" /\ ui'.pc # "crawling_clear")
        => CrawlingWritten' /\ crawlingMode' /\ ~analysisMode'
     /\ (ui.pc = "analysis_clear" /\ ui'.pc # "analysis_clear")
        => AnalysisWritten' /\ analysisMode' /\ ~crawlingMode'
     /\ CrawlingWritten'
        => /\ crawlingMode' = ui'.isCrawlingMode
           /\ crawlingMode' => ~analysisMode'
     /\ AnalysisWritten'
        => /\ analysisMode' = ui'.isAnalysisMode
           /\ analysisMode' => ~crawlingMode'
     /\ (Ready /\ ui'.pc = "crawling_notify" /\ ~crawlingMode')
        => analysisMode' = analysisMode
     /\ (Ready /\ ui'.pc = "analysis_notify" /\ ~analysisMode')
        => crawlingMode' = crawlingMode
     /\ (~crawlingMode /\ crawlingMode') => (Ready /\ ui'.isCrawlingMode)
     /\ (~analysisMode /\ analysisMode') => (Ready /\ ui'.isAnalysisMode)]_vars

C21_Witness ==
  /\ ui.pc = "analysis_unanswered"
  /\ analysisMode /\ ~crawlingMode
  /\ ui.isAnalysisMode /\ ~ui.isCrawlingMode

\* C22: every SET_MODE request delivered to the background handler
\* (TRACKING_TOGGLED, CRAWLING_TOGGLED, ANALYSIS_TOGGLED) is eventually
\* acknowledged: the handler calls sendResponse for it, so the sender's
\* pending request completes.
ToggledTypes == {"CRAWLING_TOGGLED", "ANALYSIS_TOGGLED"}
Resumed == ui.pc \in {"idle", "crawling_notify"}

C22_SetModeAcknowledged == \A t \in ToggledTypes : Awaits(t) ~> Resumed

\* C23: from the moment the persisted trackingEnabled flag is false until it
\* is set true again, the number of stored records never increases, including
\* for admit calls that were already in flight when the flag was turned off.
C23_NoAdmitWhileOff ==
  [][(~urlTrackingEnabled /\ ~urlTrackingEnabled') => Len(all') <= Len(all)]_vars

\* C24: when a storage write fails during admit, admit returns
\* {success: false, error} instead of throwing, no record for the url is
\* added to either tier, and every record stored before the call is unchanged.
C24_AdmitWriteFails ==
  [][\A c \in Calls :
       (IsAdmit(c) /\ pc[c] = "store_write" /\ pc'[c] # "store_write" /\ writeFails)
       => /\ pc'[c] = "done" /\ result'[c].returned
          /\ ~result'[c].success /\ result'[c].error = QuotaExceeded
          /\ Count(all', req[c].url) = 0
          /\ tiers' = pre]_vars

C24_Witness ==
  \E c \in Calls :
    /\ pc[c] = "done" /\ IsAdmit(c) /\ Truthy(req[c].html)
    /\ ~result[c].success /\ result[c].error = QuotaExceeded
    /\ Len(all) > 0 /\ Count(all, req[c].url) = 0
    /\ tiers = pre

\* C25: after storeResponse(r) completes, getStoredResponses() returns a list
\* that contains r unchanged and is exactly one element longer than before;
\* getStoredResponses() is always the compact list followed by the bulk list,
\* each stored record appearing once.
CompactThenBulk(merged, compact, bulk) ==
  /\ Len(merged) = Len(compact) + Len(bulk)
  /\ \A i \in 1..Len(compact) : merged[i] = compact[i]
  /\ \A j \in 1..Len(bulk) : merged[Len(compact) + j] = bulk[j]

C25_StoreThenGet ==
  [][/\ CompactThenBulk(all', storedResponses', htmlResponses')
     /\ \A c \in Calls :
          (pc[c] = "store_write" /\ Returns(c) /\ result'[c].success)
          => /\ Len(all') = Len(all) + 1
             /\ Len(all') = Len(preAll) + 1
             /\ \E i \in 1..Len(all') :
                  all'[i] = [url |-> req[c].url,
                             type |-> IF Truthy(req[c].html) THEN "html" ELSE "url",
                             validationStatus |-> "pending",
                             html |-> req[c].html]
             /\ \A i \in 1..Len(all) : \E j \in 1..Len(all') : all'[j] = all[i]]_vars

C25_Witness ==
  \E c \in Calls :
    /\ pc[c] = "done" /\ IsAdmit(c) /\ result[c].success
    /\ Len(pre[2]) > 0 /\ htmlResponses = pre[2]
    /\ storedResponses = Append(pre[1], ScrapeResponse(req[c].url, "url", "pending", Undefined))
    /\ all[Len(storedResponses)].url = req[c].url
    /\ CompactThenBulk(all, storedResponses, htmlResponses)

\* C26: the authentication probe reports 'requires authentication' if and
\* only if the response status is 401 or 403, or it is a 3xx whose Location
\* contains login, auth or signin in any letter case, or a WWW-Authenticate
\* header is present, or the status is neither 2xx nor 3xx; a 2xx or a 3xx
\* response matching none of these is reported as not requiring
\* authentication.
toLowerCase(s) ==
  [i \in 1..Len(s) |->
     CASE s[i] = "L" -> "l" [] s[i] = "O" -> "o" [] s[i] = "G" -> "g"
       [] s[i] = "I" -> "i" [] s[i] = "N" -> "n" [] OTHER -> s[i]]

NamesSignIn(location) ==
  \E word \in {Login, Auth, Signin} : includes(toLowerCase(location), word)

Is2xx(status) == status >= 200 /\ status < 300
Is3xx(status) == status >= 300 /\ status < 400

RequiresAuthAsStated(r) ==
  \/ r.status \in {401, 403}
  \/ Is3xx(r.status) /\ NamesSignIn(r.location)
  \/ r.wwwAuthenticate
  \/ ~Is2xx(r.status) /\ ~Is3xx(r.status)

C26_ProbeClassification ==
  (probed.sent /\ ~probed.response.networkError)
  => (probed.urlRequiresAuth <=> RequiresAuthAsStated(probed.response))

\* C27: when the probe request fails at network level (no response), the
\* probe reports 'not requiring authentication', so admit(url) without html
\* with tracking enabled then creates a pending url-only record for an unseen
\* url.
C27_NetworkFailureAdmits ==
  [][\A c \in ProbeCalls :
       /\ (pc[c] = "admit_probe" /\ pc'[c] # "admit_probe"
           /\ probed'.response.networkError)
          => /\ ~probed'.urlRequiresAuth
             /\ pc'[c] = "admit_exists" /\ ~loc'[c].urlRequiresAuth
       /\ (/\ Returns(c) /\ IsAdmit(c) /\ ~Truthy(req[c].html)
           /\ loc[c].trackingEnabled /\ pc[c] # "admit_probe"
           /\ probed.sent /\ probed.response.networkError
           /\ Count(preAll, req[c].url) = 0)
          => /\ result'[c].success
             /\ Count(all', req[c].url) = 1
             /\ storedResponses' =
                  Append(pre[1], ScrapeResponse(req[c].url, "url", "pending", req[c].html))
             /\ htmlResponses' = pre[2]]_vars

C27_Witness ==
  \E c \in ProbeCalls :
    /\ pc[c] = "done" /\ IsAdmit(c) /\ ~Truthy(req[c].html)
    /\ probed.sent /\ probed.response.networkError
    /\ result[c].success
    /\ Len(preAll) > 0 /\ Count(preAll, req[c].url) = 0
    /\ storedResponses =
         Append(pre[1], ScrapeResponse(req[c].url, "url", "pending", Undefined))

\* C28: for every sanitized snapshot longer than the ceiling (50,000),
\* getRenderedHTML returns a string that ends with the truncation marker and
\* whose length is at most ceiling + marker length, for every position of the
\* last '>' at or before the ceiling.
C28_TruncatedWithinCeiling ==
  (At("sent") /\ content.html.cleanedHTML.length > maxSize)
  => /\ content.html.endsWithMarker
     /\ content.html.length <= maxSize + MarkerLength

\* C29: captureAndSendHTML always terminates: each of the three waiting
\* stages (framework detection, key-element detection, content stabilization)
\* returns once its timeout has elapsed whatever the page does, so the
\* snapshot is taken and sent to the background after a bounded number of
\* timer ticks.
StageTimeout ==
  CASE content.pc \in {"frameworks", "frameworks_sleep", "frameworks_settle"}
         -> frameworksTimeout + 2 * frameworksPoll
    [] content.pc \in {"keys", "keys_sleep"}
         -> keyElementsTimeout + 2 * keyElementsPoll
    [] OTHER -> maxWaitTime + 2 * pollInterval

C29_CaptureTerminates ==
  /\ [](content.elapsed < StageTimeout)
  /\ \A stage \in {"frameworks", "keys", "stable"} : At(stage) ~> At("sent")

C29_Witness ==
  /\ At("stable_lazy")
  /\ content.elapsed >= maxWaitTime
  /\ content.stableCount < requiredStableCount

\* C30: getUsage reports percentageUsed = min(100, 100 x bytesInUse /
\* quotaBytes) with bytesInUse measured against the quota of the tier it
\* belongs to: a compact tier filled to 85% of its quota is reported as about
\* 85 (above the warning threshold) whatever the bulk tier holds, and the
\* value never exceeds 100.
WarningThreshold == 80

Measured == info.answered /\ info.quotaBytes > 0

C30_UsagePercentage ==
  Measured
  => /\ info.percentageUsed <= 100
     /\ info.percentageUsed = min(100, (100 * info.bytesInUse) \div info.quotaBytes)
     /\ info.syncUsage = Percent(syncQuota, 85)
        => /\ info.percentageUsed \in 84..86
           /\ info.percentageUsed > WarningThreshold

\* C31: no pipeline operation consults storage usage before writing: with
\* tracking enabled, admit of an unseen url behaves the same at any reported
\* usage percentage, including 80% and above; usage only shows up in the
\* getUsage result.
C31_AdmitIgnoresUsage ==
  [][/\ \A c \in ProbeCalls :
          (/\ pc[c] = "store_write" /\ Returns(c) /\ IsAdmit(c)
           /\ Count(preAll, req[c].url) = 0)
          => /\ result'[c].success
             /\ Count(all', req[c].url) = 1
             /\ Len(all') = Len(preAll) + 1
             /\ info' = info
     /\ info' # info
        => /\ tiers' = tiers /\ flags' = flags
           /\ pc' = pc /\ result' = result]_vars

C31_Witness ==
  \E c \in ProbeCalls :
    /\ pc[c] = "done" /\ IsAdmit(c) /\ result[c].success
    /\ info.answered /\ info.percentageUsed >= WarningThreshold
    /\ Count(preAll, req[c].url) = 0 /\ Count(all, req[c].url) = 1
    /\ Len(preAll) > 0

\* C32: every request sent by submit (full or sample) carries crawl and
\* analysis_only not both true, even when a mode toggle runs concurrently with
\* the submission's separate reads of the crawlingMode and analysisMode flags.
C32_RequestModesExclusive ==
  \A c \in SubmitCalls :
    fetched[c].sent => ~(fetched[c].body.crawl /\ fetched[c].body.analysis_only)

\* C33: when two admit calls for two different unseen urls of the same kind
\* run concurrently with tracking enabled and both return success, both
\* records are stored once both calls have finished: no successful admission
\* is lost to the other call's read-modify-write of the shared list.
C33_NoLostAdmission ==
  [][\A c, d \in Calls :
       (/\ c # d /\ IsAdmit(c) /\ IsAdmit(d)
        /\ req[c].url # req[d].url
        /\ pc[d] = "done" /\ result[d].success /\ Count(all, req[d].url) = 1
        /\ pc[c] = "store_write" /\ Returns(c) /\ result'[c].success)
       => /\ Count(all', req[c].url) = 1
          /\ Count(all', req[d].url) = 1]_vars

\* C34: when the sanitized snapshot exceeds the ceiling, the kept prefix ends
\* at a tag boundary: the character immediately before the truncation marker
\* is '>', wherever the last '>' before the ceiling lies.
Truncated == At("sent") /\ content.html.cleanedHTML.length > maxSize
\* the last character of the kept prefix is a '>'
EndsAtTag == (content.html.kept - 1) \in content.html.cleanedHTML.closeTags
\* the snapshot has a '>' in its last nearEnd characters up to the ceiling
TagNearCeiling ==
  \E i \in content.html.cleanedHTML.closeTags : i > maxSize - nearEnd /\ i <= maxSize

C34_EndsAtTagBoundary == Truncated => EndsAtTag

\* C34, amended: the kept prefix ends with the last '>' at or before the
\* ceiling when that '>' lies less than 200 characters before the ceiling;
\* otherwise the prefix is the first 50,000 characters, whatever they end with.
C34_TagBoundaryWhenNear ==
  Truncated
  => IF TagNearCeiling
     THEN /\ EndsAtTag
          /\ \A i \in content.html.cleanedHTML.closeTags :
               i <= maxSize => i < content.html.kept
     ELSE content.html.kept = maxSize

C34_Witness ==
  /\ Truncated /\ TagNearCeiling /\ EndsAtTag
  /\ content.html.kept < maxSize
  /\ content.html.endsWithMarker

\* C35: waitForContentToLoad leaves its polling loop at the first poll at
\* which the body size has equalled the previous sample on 3 consecutive
\* polls; any poll with a different size resets the stable counter to 0;
\* otherwise the loop ends when the timeout elapses, and in both cases the
\* 500 ms settle wait follows.
Polling == content.pc \in {"stable", "stable_sleep"}

C35_StableOrTimeout ==
  [][/\ Polling => content.stableCount < requiredStableCount
     /\ (Polling /\ content' # content)
        => content'.pc \in {"stable", "stable_sleep", "stable_lazy"}
     /\ (At("stable_sleep") /\ content' # content)
        => /\ content'.stableCount =
                IF content'.lastBodyLength = content.lastBodyLength
                THEN content.stableCount + 1 ELSE 0
           /\ At("stable_lazy")' <=> content'.stableCount = requiredStableCount
     /\ (At("stable") /\ content' # content)
        => /\ At("stable_lazy")' <=> content.elapsed >= maxWaitTime
           /\ content'.stableCount = content.stableCount
     /\ (At("stable_lazy") /\ content' # content) => At("sent")']_vars

C35_Witness ==
  /\ At("stable_lazy")
  /\ content.stableCount = requiredStableCount
  /\ content.elapsed > requiredStableCount * pollInterval
  /\ content.elapsed < maxWaitTime

\* C36: every CAPTURE_HTML(url) request received by the content script
\* eventually gets exactly one response, sent only after the three waiting
\* stages, the snapshot and the STORE_HTML_URL admission round-trip have
\* finished, or a {success:false} response if the capture throws.
Requested == content.listener /\ At("frameworks")
Answered36 == content.listener /\ At("idle") /\ content.responses = 1

C36_CaptureAnswered ==
  /\ [](content.responses <= 1)
  /\ [][(content.listener /\ content'.responses = content.responses + 1)
        => \/ /\ At("awaiting")
              /\ \E c \in ProbeCalls :
                   /\ pc[c] = "done" /\ req[c].type = "STORE_HTML_URL"
                   /\ req[c].url = content.url
                   /\ content'.reply = result[c]
           \/ /\ content.pc \in {"stable_lazy", "sent"}
              /\ ~content'.reply.success]_vars
  /\ Requested ~> Answered36

C36_Witness ==
  /\ Answered36
  /\ content.reply.returned /\ content.reply.success
  /\ Count(all, content.url) = 1
  /\ \E c \in ProbeCalls :
       /\ pc[c] = "done" /\ req[c].url = content.url
       /\ htmlResponses = Append(pre[2], ScrapeResponse(content.url, "html",
                                                        "pending", req[c].html))

\* C37: admit issues the authentication probe request only when tracking is
\* enabled and no html was supplied: with tracking disabled, or with html
\* supplied, no probe request is sent for the url.
ProbeSent == probed' # probed

C37_ProbeOnlyWhenNeeded ==
  [][/\ ProbeSent
        => \E c \in ProbeCalls :
             /\ pc[c] = "admit_probe" /\ pc'[c] # "admit_probe"
             /\ loc[c].trackingEnabled /\ urlTrackingEnabled
             /\ ~Truthy(req[c].html)
     /\ \A c \in ProbeCalls :
          pc'[c] = "admit_probe"
          => /\ ~Truthy(req'[c].html)
             /\ loc'[c].trackingEnabled /\ urlTrackingEnabled']_vars

C37_Witness ==
  \E c \in ProbeCalls :
    /\ pc[c] = "done" /\ req[c].type = "STORE_HTML_URL" /\ Truthy(req[c].html)
    /\ result[c].success /\ Count(all, req[c].url) = 1
    /\ probed.sent /\ probed.urlRequiresAuth

\* C38: when updateValidationStatus, remove, validateAllPending or removeAll
\* returns false because one of its storage writes failed, both tiers are
\* exactly as they were before the call: the write to the compact tier is not
\* left committed when the later write to the bulk tier fails.
ListOperations ==
  {"UPDATE_VALIDATION", "VALIDATE_ALL_PENDING", "REMOVE_RESPONSE",
   "REMOVE_ALL_RESPONSES"}
WritePositions ==
  {"update_sync_write", "update_local_write", "validate_sync_write",
   "validate_local_write", "remove_sync_write", "remove_local_write",
   "removeall_sync", "removeall_local"}

C38_FailedWriteChangesNothing ==
  [][\A c \in Calls :
       (/\ req[c].type \in ListOperations
        /\ pc[c] \in WritePositions /\ writeFails
        /\ Returns(c) /\ ~result'[c].success)
       => tiers' = pre]_vars

\* C39: a url-only record admitted successfully stays in the result of
\* getAll() until remove(url) or removeAll() deletes it, even when the
\* availability of the sync store changes between calls (ExtensionStorage
\* re-probes sync and falls back to local on every get and set).
getAll == getStoredResponses(extensionGet, htmlResponses)

C39_AdmittedStaysVisible ==
  \A c \in ProbeCalls :
    (/\ pc[c] = "done" /\ IsAdmit(c) /\ ~Truthy(req[c].html)
     /\ result[c].returned /\ result[c].success)
    => Count(getAll, req[c].url) >= 1

\* C40: updateValidationStatus(url, s) returns true exactly when the call
\* changed the stored status of at least one record; it returns false when no
\* record has the url and when the record with the url already has status s,
\* so the second of two identical calls in a row returns false.
StatusChanged ==
  \E i \in 1..Len(preAll) : all'[i].validationStatus # preAll[i].validationStatus

C40_TrueIffChanged ==
  [][\A c \in Calls :
       (Returns(c) /\ req[c].type = "UPDATE_VALIDATION")
       => /\ Len(all') = Len(preAll)
          /\ result'[c].success <=> StatusChanged
          /\ (\A i \in 1..Len(preAll) :
                 preAll[i].url = req[c].url
                 => preAll[i].validationStatus = req[c].status)
             => ~result'[c].success /\ tiers' = pre]_vars

\* an update that returned false although a record with its url is stored:
\* the record already had the requested status
C40_Witness ==
  \E c \in Calls :
    /\ pc[c] = "done" /\ req[c].type = "UPDATE_VALIDATION" /\ ~result[c].success
    /\ \E i \in 1..Len(preAll) :
         preAll[i].url = req[c].url /\ preAll[i].validationStatus = req[c].status
    /\ tiers = pre

====
